---- MODULE Spec2Model ----
(***************************************************************************)
(* Model of the asynchronous email-processing pipeline of                  *)
(* services/async_processor.py (AsyncEmailProcessor) together with the     *)
(* collaborators it drives: the rule-based classifier, the extractor and   *)
(* the aggregator.                                                         *)
(*                                                                         *)
(* Conventions                                                             *)
(*   - Python None is the empty sequence, a present value x is <<x>>.      *)
(*   - A progress argument is a rational [num, den] in percent; the stored *)
(*     progress is round(progress, 1), kept in tenths of a percent.        *)
(*   - The asyncio event loop is cooperative: the variable loop names the  *)
(*     job whose coroutine is executing a synchronous segment (0 = the     *)
(*     loop is idle and may run any ready callback or request handler).    *)
(***************************************************************************)
EXTENDS Integers, Sequences, FiniteSets, TLC

VARIABLES jobs, issued, now, loop, proc, streams, call, credentials

vars == <<jobs, issued, now, loop, proc, streams, call, credentials>>

(***************************************************************************)
(* Bounds of the model                                                     *)
(***************************************************************************)
MaxEmails == 27
MaxSharedEmails == 8
MaxTime == 1
MaxCallEmails == 4
MaxGroupSize == 3
MaxJunkTens == 60
MaxBucket == 6
MaxTransactions == 3
MaxSubscriptions == 3
MaxHealthItems == 1
MaxReportItems == 2

(***************************************************************************)
(* Program constants                                                       *)
(***************************************************************************)
batch_size == 5
max_concurrent_batches == 3
ParseUpdateEvery == 10

None == <<>>
Some(x) == <<x>>

\* the ids uuid4 hands out: two jobs run side by side in SpecJobs, one in Spec
JobIds == {1, 2}
SoloIds == {1}

Rat(n, d) == [num |-> n, den |-> d]

Min(a, b) == IF a < b THEN a ELSE b

\* Python's round(): round half to even
RoundHalfEven(num, den) ==
    LET q == num \div den
        r == num % den
    IN  IF 2 * r < den THEN q
        ELSE IF 2 * r > den THEN q + 1
        ELSE IF q % 2 = 0 THEN q ELSE q + 1

\* round(progress, 1), in tenths of a percent
Round1(p) == RoundHalfEven(10 * p.num, p.den)

(***************************************************************************)
(* Emails.  The text of an email (subject, sender and the first 200 body   *)
(* characters) is abstracted to the rule groups its text can match.        *)
(***************************************************************************)
Kinds == {"cardtxn", "stmtbrand", "brand", "promo", "cardpromo", "brandpromo",
          "stmtbrandpromo", "plain"}

\* any(re.search(p, text) for p in exclude_patterns)
ExcludeMatch(kind) == kind \in {"promo", "cardpromo", "brandpromo", "stmtbrandpromo"}
\* any(re.search(p, text) for p in definitely_financial_patterns)
DefinitelyMatch(kind) == kind \in {"cardtxn", "stmtbrand", "cardpromo", "stmtbrandpromo"}
\* any(re.search(p, text) for p in maybe_financial_patterns)
MaybeMatch(kind) == kind \in {"stmtbrand", "brand", "brandpromo", "stmtbrandpromo"}
\* any(keyword in text for keyword in credit_card_keywords)
CardKeyword(kind) == kind \in {"cardtxn", "stmtbrand", "cardpromo", "stmtbrandpromo"}

MixCycle == <<"cardtxn", "brand", "stmtbrand", "promo", "brand", "cardtxn", "brand", "cardpromo", "stmtbrand">>
JunkCycle == <<"promo", "plain", "brandpromo", "cardpromo">>

\* a raw message as the mail API returns it
RawEmail(i, kind) == [id |-> i, payload |-> kind]

Mailbox(cycle, n) == [i \in 1..n |-> RawEmail(i, cycle[((i - 1) % Len(cycle)) + 1])]

\* a mailbox of irrelevant mail, long enough for the parse progress of its
\* last update to round to 50.0
LongJunkMailbox == Mailbox(JunkCycle, 10 * MaxJunkTens + 1)

DeepMailboxes ==
    {Mailbox(MixCycle, n) : n \in {0, 1, 8, 14, MaxEmails}}
        \cup {Mailbox(JunkCycle, 2), LongJunkMailbox}

SharedMailboxes ==
    {Mailbox(MixCycle, n) : n \in {0, MaxSharedEmails}} \cup {Mailbox(JunkCycle, 1)}

\* messages of the exceptions a collaborator may raise
Messages == {"", "boom"}

\* str(TypeError) of round(None, 1)
RoundNoneMsg == "type NoneType doesn't define __round__ method"

\* EmailParser.parse_email
ParseEmailRecord(raw) == [id |-> raw.id, text |-> raw.payload]

(***************************************************************************)
(* EmailClassifier                                                         *)
(***************************************************************************)
\* variant: the high-confidence rules are tried before the exclude rules
classify_email_definitely_first(email) ==
    IF DefinitelyMatch(email.text) THEN "definitely_financial"
    ELSE IF ExcludeMatch(email.text) THEN "probably_not"
    ELSE IF MaybeMatch(email.text) THEN "maybe_financial"
    ELSE "probably_not"

classify_email(email) ==
    IF ExcludeMatch(email.text) THEN "probably_not"
    ELSE IF DefinitelyMatch(email.text) THEN "definitely_financial"
    ELSE IF MaybeMatch(email.text) THEN "maybe_financial"
    ELSE "probably_not"

\* variant: the first bucket is filled by the high-confidence rules alone
classify_emails_batch_by_pattern(es) ==
    [definitely_financial |-> SelectSeq(es, LAMBDA e : DefinitelyMatch(e.text)),
     maybe_financial |-> SelectSeq(es, LAMBDA e : classify_email(e) = "maybe_financial"),
     probably_not |-> SelectSeq(es, LAMBDA e : classify_email(e) \notin {"definitely_financial", "maybe_financial"})]

classify_emails_batch(es) ==
    [definitely_financial |-> SelectSeq(es, LAMBDA e : classify_email(e) = "definitely_financial"),
     maybe_financial |-> SelectSeq(es, LAMBDA e : classify_email(e) = "maybe_financial"),
     probably_not |-> SelectSeq(es, LAMBDA e : classify_email(e) \notin {"definitely_financial", "maybe_financial"})]

\* variant: the percentage is cut off after its first decimal
get_classification_stats_truncating(c) ==
    LET total == Len(c.definitely_financial) + Len(c.maybe_financial) + Len(c.probably_not)
    IN  [total_emails |-> total,
         definitely_financial |-> Len(c.definitely_financial),
         maybe_financial |-> Len(c.maybe_financial),
         probably_not |-> Len(c.probably_not),
         will_process_with_ai |-> Len(c.definitely_financial) + Len(c.maybe_financial),
         ai_processing_reduction |->
             IF total > 0 THEN (1000 * Len(c.probably_not)) \div total ELSE 0]

get_classification_stats(c) ==
    LET total == Len(c.definitely_financial) + Len(c.maybe_financial) + Len(c.probably_not)
    IN  [total_emails |-> total,
         definitely_financial |-> Len(c.definitely_financial),
         maybe_financial |-> Len(c.maybe_financial),
         probably_not |-> Len(c.probably_not),
         will_process_with_ai |-> Len(c.definitely_financial) + Len(c.maybe_financial),
         ai_processing_reduction |->
             IF total > 0 THEN RoundHalfEven(1000 * Len(c.probably_not), total) ELSE 0]

(***************************************************************************)
(* IntelligentExtractor.  An oracle fixes how the external model behaves   *)
(* during one call of extract_insights_batch: whether a model handle       *)
(* exists, what the combined (batch) request answers and what a            *)
(* single-email request answers.                                           *)
(***************************************************************************)
\* batch answers: the call raises, the text is not JSON, JSON scalar, JSON
\* object with keys, the empty JSON object, an array whose first element is
\* not an object, and arrays of N, N-1, N+1 and 0 objects
BatchResps == {"raise", "notjson", "scalar", "object", "emptyobject", "nondict",
               "full", "short", "long", "empty"}
\* single answers: the call raises, not JSON, a JSON object, another JSON value
SingleResps == {"raise", "notjson", "dict", "nondict"}

Oracles == [model : BOOLEAN, batch : BatchResps, single : SingleResps]

\* the oracles met by the worker threads when several jobs run: one for each
\* way a call can end (heuristic records, AI records, a short AI array, raise)
SharedOracles ==
    {[model |-> FALSE, batch |-> "raise", single |-> "raise"],
     [model |-> TRUE, batch |-> "full", single |-> "dict"],
     [model |-> TRUE, batch |-> "short", single |-> "dict"],
     [model |-> TRUE, batch |-> "notjson", single |-> "nondict"]}

Returned(v) == [raised |-> FALSE, value |-> v]
Raised(m) == [raised |-> TRUE, value |-> m]

\* the value json.loads produced for one email (a dict), or a non-dict value
AiDict == [isdict |-> TRUE, source |-> "ai", is_relevant |-> TRUE]
NonDict == [isdict |-> FALSE, source |-> "ai", is_relevant |-> FALSE]

_fallback_extraction(email) ==
    [isdict |-> TRUE, source |-> "heuristic", is_relevant |-> CardKeyword(email.text)]

extract_financial_insights(email, o) ==
    IF ~o.model THEN _fallback_extraction(email)
    ELSE IF o.single = "dict" THEN AiDict
    ELSE IF o.single = "nondict" THEN NonDict
    ELSE _fallback_extraction(email)

\* result['email_id'] = email.get('id'): item assignment needs a dict
Tagged(result, email) ==
    [email_id |-> email.id, source |-> result.source, is_relevant |-> result.is_relevant]

\* the per-email loop "result = extract_financial_insights(...); result['email_id'] = ..."
ReplayEmails(emails, o) ==
    IF \E i \in 1..Len(emails) : ~extract_financial_insights(emails[i], o).isdict
    THEN Raised("TypeError")
    ELSE Returned([i \in 1..Len(emails) |-> Tagged(extract_financial_insights(emails[i], o), emails[i])])

\* number of leading objects of the parsed array (len(batch_results))
ArrayLen(resp, n) ==
    IF resp = "full" THEN n
    ELSE IF resp = "short" THEN n - 1
    ELSE IF resp = "long" THEN n + 1
    ELSE 0

\* variant: only the emails covered by the parsed array get a record
_process_batch_with_ai_covered_only(emails, o) ==
    IF ~o.model \/ Len(emails) = 0 THEN Returned(<<>>)
    ELSE IF o.batch \in {"full", "short", "long", "empty", "emptyobject"}
    THEN Returned([i \in 1..Min(Len(emails), ArrayLen(o.batch, Len(emails))) |->
                     Tagged(AiDict, emails[i])])
    ELSE ReplayEmails(emails, o)

_process_batch_with_ai(emails, o) ==
    IF ~o.model \/ Len(emails) = 0 THEN Returned(<<>>)
    ELSE IF o.batch \in {"full", "short", "long", "empty", "emptyobject"}
    THEN Returned([i \in 1..Len(emails) |->
                     IF i - 1 < ArrayLen(o.batch, Len(emails))
                     THEN Tagged(AiDict, emails[i])
                     ELSE Tagged(_fallback_extraction(emails[i]), emails[i])])
    ELSE ReplayEmails(emails, o)

ExtractGroup(batch, o) ==
    IF o.model
    THEN LET r == _process_batch_with_ai(batch, o)
         IN  IF r.raised THEN ReplayEmails(batch, o) ELSE r
    ELSE ReplayEmails(batch, o)

RECURSIVE ExtractFrom(_, _, _, _, _)
ExtractFrom(emails, size, o, i, results) ==
    IF i > Len(emails) THEN Returned(results)
    ELSE LET batch == SubSeq(emails, i, Min(i + size - 1, Len(emails)))
             r == ExtractGroup(batch, o)
         IN  IF r.raised THEN r
             ELSE ExtractFrom(emails, size, o, i + size, results \o r.value)

extract_insights_batch(emails, size, o) ==
    IF Len(emails) = 0 THEN Returned(<<>>)
    ELSE ExtractFrom(emails, size, o, 1, <<>>)

(***************************************************************************)
(* AnalyticsService.  An insight record is a dict: a key may be absent, or *)
(* hold null (None) or a value (Some(v)).  Amounts are whole currency      *)
(* units; every amount of a report is in hundredths of a unit.             *)
(***************************************************************************)
\* d.get(k, default)
Get(d, k, default) == IF k \in DOMAIN d THEN d[k] ELSE default

Range(s) == {s[i] : i \in 1..Len(s)}

RECURSIVE SumSeq(_)
SumSeq(s) == IF Len(s) = 0 THEN 0 ELSE Head(s) + SumSeq(Tail(s))

MaxOf(S) == CHOOSE a \in S : \A b \in S : b <= a

\* round() of a quotient that may be negative
RoundSigned(num, den) ==
    IF num >= 0 THEN RoundHalfEven(num, den) ELSE 0 - RoundHalfEven(0 - num, den)

EmptyDict == [k \in {} |-> 0]

\* [item[k] for item in data if item.get(k)]
SectionsOf(data, k) ==
    LET sel == SelectSeq(data, LAMBDA item : Get(item, k, None) # None)
    IN  [i \in 1..Len(sel) |-> sel[i][k][1]]

\* the date strings met in records
Dates == {"2025-01-15", "2025-01-31", "2025-02-03", "15/01/2025", ""}

\* datetime.strptime(date_str, '%Y-%m-%d').strftime('%Y-%m'); None for ValueError
MonthKey(date_str) ==
    IF date_str \in {"2025-01-15", "2025-01-31"} THEN Some("2025-01")
    ELSE IF date_str = "2025-02-03" THEN Some("2025-02")
    ELSE None

\* the amounts of records all of which hold a number
Amounts(records) == [i \in 1..Len(records) |-> Get(records[i], "amount", Some(0))[1]]

\* the records with a parseable date, and the per-month totals of their amounts
Dated(records) ==
    SelectSeq(records, LAMBDA r : MonthKey(Get(r, "date", "")) # None)

MonthlyTotals(records) ==
    [m \in {MonthKey(r.date)[1] : r \in Range(Dated(records))} |->
        100 * SumSeq(Amounts(SelectSeq(Dated(records), LAMBDA r : MonthKey(r.date)[1] = m)))]

\* sum(monthly.values()) / len(monthly) rounded to two decimals, 0 without months
MonthlyAverage(records) ==
    IF Dated(records) = <<>> THEN 0
    ELSE RoundHalfEven(100 * SumSeq(Amounts(Dated(records))),
                       Cardinality(DOMAIN MonthlyTotals(records)))

SpendingDefault ==
    [total_spending |-> 0, category_breakdown |-> EmptyDict, monthly_trend |-> EmptyDict,
     top_merchants |-> EmptyDict, average_monthly_spending |-> 0,
     highest_single_transaction |-> 0]

\* the transactions with type expense and a truthy amount
Expenses(data) ==
    SelectSeq(SectionsOf(data, "transaction"),
              LAMBDA t : /\ Get(t, "transaction_type", None) = Some("expense")
                         /\ Get(t, "amount", None) # None
                         /\ Get(t, "amount", None) # Some(0))

\* top_merchants keeps the ten greatest totals: all of them for the inputs
\* here.  Lists whose order the code leaves open (employers, providers,
\* platforms) are sets.
_analyze_spending(data) ==
    LET expenses == Expenses(data)
    IN  IF expenses = <<>> THEN SpendingDefault
        ELSE [total_spending |-> 100 * SumSeq(Amounts(expenses)),
              category_breakdown |->
                  [c \in {Get(e, "category", "Other") : e \in Range(expenses)} |->
                      100 * SumSeq(Amounts(SelectSeq(expenses,
                                LAMBDA e : Get(e, "category", "Other") = c)))],
              monthly_trend |-> MonthlyTotals(expenses),
              top_merchants |->
                  [m \in {Get(e, "merchant", "Unknown") : e \in Range(expenses)} |->
                      100 * SumSeq(Amounts(SelectSeq(expenses,
                                LAMBDA e : Get(e, "merchant", "Unknown") = m)))],
              average_monthly_spending |-> MonthlyAverage(expenses),
              highest_single_transaction |-> 100 * MaxOf(Range(Amounts(expenses)))]

IncomeDefault ==
    [total_income |-> 0, employers |-> {}, pay_cycles |-> EmptyDict,
     monthly_income_trend |-> EmptyDict, average_monthly_income |-> 0]

\* a null amount makes sum() raise TypeError, which the function catches
_analyze_income(data) ==
    LET income_data == SectionsOf(data, "income")
    IN  IF income_data = <<>> THEN IncomeDefault
        ELSE IF \E inc \in Range(income_data) : Get(inc, "amount", Some(0)) = None
        THEN IncomeDefault
        ELSE [total_income |-> 100 * SumSeq(Amounts(income_data)),
              employers |-> {inc.employer[1] : inc \in
                               {x \in Range(income_data) : Get(x, "employer", None) # None}},
              pay_cycles |->
                  [c \in {inc.pay_cycle[1] : inc \in
                            {x \in Range(income_data) : Get(x, "pay_cycle", None) # None}} |->
                      Len(SelectSeq(income_data,
                            LAMBDA x : Get(x, "pay_cycle", None) = Some(c)))],
              monthly_income_trend |-> MonthlyTotals(income_data),
              average_monthly_income |-> MonthlyAverage(income_data)]

\* the billing cycles that enter the monthly cost
CostedCycles == {Some("yearly"), Some("monthly"), Some("weekly")}

\* variant: a month of four weeks
MonthlyShareFourWeeks(sub) ==
    LET cycle == Get(sub, "billing_cycle", Some("monthly"))
        amount == Get(sub, "amount", Some(0))[1]
    IN  IF cycle = Some("yearly") THEN 100 * amount
        ELSE IF cycle = Some("monthly") THEN 1200 * amount
        ELSE IF cycle = Some("weekly") THEN 4800 * amount
        ELSE 0

\* what one subscription adds to monthly_cost, in 1/1200 of a unit:
\* amount / 12, amount or amount * 4.33
MonthlyShare(sub) ==
    LET cycle == Get(sub, "billing_cycle", Some("monthly"))
        amount == Get(sub, "amount", Some(0))[1]
    IN  IF cycle = Some("yearly") THEN 100 * amount
        ELSE IF cycle = Some("monthly") THEN 1200 * amount
        ELSE IF cycle = Some("weekly") THEN 5196 * amount
        ELSE 0

\* arithmetic on a null amount
SubscriptionRaises(sub) ==
    /\ Get(sub, "amount", Some(0)) = None
    /\ Get(sub, "billing_cycle", Some("monthly")) \in CostedCycles

_analyze_subscriptions(data) ==
    LET subscriptions == SectionsOf(data, "subscription")
        monthly_cost == SumSeq([i \in 1..Len(subscriptions) |-> MonthlyShare(subscriptions[i])])
    IN  IF subscriptions = <<>>
        THEN Returned([active_subscriptions |-> 0, monthly_recurring_cost |-> 0,
                       services |-> <<>>])
        ELSE IF \E sub \in Range(subscriptions) : SubscriptionRaises(sub)
        THEN Raised("TypeError")
        ELSE Returned(
             [active_subscriptions |-> Len(subscriptions),
              monthly_recurring_cost |-> RoundHalfEven(100 * monthly_cost, 1200),
              services |-> [i \in 1..Len(subscriptions) |->
                              [service |-> Get(subscriptions[i], "service", None),
                               amount |-> Get(subscriptions[i], "amount", Some(0)),
                               billing_cycle |-> Get(subscriptions[i], "billing_cycle", None),
                               next_billing |-> Get(subscriptions[i], "next_billing", None)]],
              total_annual_cost |-> RoundHalfEven(100 * 12 * monthly_cost, 1200)])

\* Counter of the non-null values of a key (most_common keeps the 5 or 10
\* most frequent: all of them for the inputs here)
CounterOf(records, k) ==
    [v \in {r[k][1] : r \in {x \in Range(records) : Get(x, k, None) # None}} |->
        Len(SelectSeq(records, LAMBDA x : Get(x, k, None) = Some(v)))]

_analyze_travel(data) ==
    LET travel_data == SectionsOf(data, "travel")
        total_travel_spend ==
            SumSeq([i \in 1..Len(travel_data) |->
                      Get(travel_data[i], "booking_amount", Some(0))[1]])
    IN  IF travel_data = <<>>
        THEN Returned([total_trips |-> 0, preferred_airlines |-> <<>>,
                       preferred_hotels |-> <<>>])
        ELSE IF \E t \in Range(travel_data) : Get(t, "booking_amount", Some(0)) = None
        THEN Raised("TypeError")
        ELSE Returned(
             [total_trips |-> Len(travel_data),
              total_travel_spending |-> 100 * total_travel_spend,
              preferred_airlines |-> CounterOf(travel_data, "airline"),
              preferred_hotels |-> CounterOf(travel_data, "hotel"),
              popular_destinations |-> CounterOf(travel_data, "destination"),
              average_trip_cost |-> RoundHalfEven(100 * total_travel_spend, Len(travel_data))])

_analyze_bills(data) ==
    LET bills_data == SectionsOf(data, "bills")
    IN  IF bills_data = <<>>
        THEN Returned([total_bills |-> 0, monthly_bill_amount |-> 0,
                       utility_breakdown |-> EmptyDict])
        ELSE IF \E bill \in Range(bills_data) : Get(bill, "amount", Some(0)) = None
        THEN Raised("TypeError")
        ELSE Returned(
             [total_bills |-> Len(bills_data),
              monthly_bill_amount |-> 100 * SumSeq(Amounts(bills_data)),
              utility_breakdown |->
                  [u \in {Get(b, "utility_type", "Other") : b \in Range(bills_data)} |->
                      100 * SumSeq(Amounts(SelectSeq(bills_data,
                                LAMBDA b : Get(b, "utility_type", "Other") = u)))],
              service_providers |->
                  {b.provider[1] : b \in
                     {x \in Range(bills_data) : Get(x, "provider", None) # None}}])

_analyze_investments(data) ==
    LET investment_data == SectionsOf(data, "investment")
        bought == SelectSeq(investment_data, LAMBDA inv : Get(inv, "action", None) = Some("buy"))
        sold == SelectSeq(investment_data, LAMBDA inv : Get(inv, "action", None) = Some("sell"))
    IN  IF investment_data = <<>>
        THEN Returned([total_investments |-> 0, platforms |-> {}, instruments |-> EmptyDict])
        ELSE IF \E inv \in Range(bought) \cup Range(sold) : Get(inv, "amount", Some(0)) = None
        THEN Raised("TypeError")
        ELSE Returned(
             [total_investments |-> Len(investment_data),
              investment_platforms |->
                  {inv.platform[1] : inv \in
                     {x \in Range(investment_data) : Get(x, "platform", None) # None}},
              instrument_breakdown |-> CounterOf(investment_data, "instrument"),
              total_invested |-> 100 * SumSeq(Amounts(bought)),
              total_withdrawn |-> 100 * SumSeq(Amounts(sold)),
              net_investment |-> 100 * SumSeq(Amounts(bought)) - 100 * SumSeq(Amounts(sold))])

\* health_score from the two monthly averages and the monthly subscription
\* cost: savings_rate and subscription_ratio stay 0 when their denominator is 0
\* variant: a savings rate of exactly 20 already earns the 20 points
HealthScoreInclusive(income, spending, subscriptions) ==
    LET s == IF income > 0
             THEN IF 100 * (income - spending) >= 20 * income THEN 20
                  ELSE IF 100 * (income - spending) > 10 * income THEN 10
                  ELSE IF income - spending < 0 THEN 0 - 20
                  ELSE 0
             ELSE 0
        r == IF spending > 0
             THEN IF 100 * subscriptions < 10 * spending THEN 10
                  ELSE IF 100 * subscriptions > 25 * spending THEN 0 - 10
                  ELSE 0
             ELSE 10
        score == 50 + s + r
    IN  IF score < 0 THEN 0 ELSE IF score > 100 THEN 100 ELSE score

HealthScore(income, spending, subscriptions) ==
    LET s == IF income > 0
             THEN IF 100 * (income - spending) > 20 * income THEN 20
                  ELSE IF 100 * (income - spending) > 10 * income THEN 10
                  ELSE IF income - spending < 0 THEN 0 - 20
                  ELSE 0
             ELSE 0
        r == IF spending > 0
             THEN IF 100 * subscriptions < 10 * spending THEN 10
                  ELSE IF 100 * subscriptions > 25 * spending THEN 0 - 10
                  ELSE 0
             ELSE 10
        score == 50 + s + r
    IN  IF score < 0 THEN 0 ELSE IF score > 100 THEN 100 ELSE score

\* savings_rate and subscription_to_spending_ratio are in tenths of a percent
_calculate_financial_health(data) ==
    LET avg_monthly_spending == _analyze_spending(data).average_monthly_spending
        avg_monthly_income == _analyze_income(data).average_monthly_income
        subscription_analysis == _analyze_subscriptions(data)
        monthly_subscriptions == subscription_analysis.value.monthly_recurring_cost
    IN  IF subscription_analysis.raised THEN subscription_analysis
        ELSE Returned(
             [savings_rate |->
                  IF avg_monthly_income > 0
                  THEN RoundSigned(1000 * (avg_monthly_income - avg_monthly_spending),
                                   avg_monthly_income)
                  ELSE 0,
              subscription_to_spending_ratio |->
                  IF avg_monthly_spending > 0
                  THEN RoundHalfEven(1000 * monthly_subscriptions, avg_monthly_spending)
                  ELSE 0,
              financial_health_score |->
                  HealthScore(avg_monthly_income, avg_monthly_spending, monthly_subscriptions),
              monthly_surplus_deficit |-> avg_monthly_income - avg_monthly_spending])

_generate_summary(data) ==
    [total_emails_analyzed |-> Len(data),
     financial_emails_found |-> Len(SelectSeq(data, LAMBDA d : Get(d, "is_relevant", FALSE))),
     transactions_extracted |-> Len(SectionsOf(data, "transaction")),
     income_entries_found |-> Len(SectionsOf(data, "income")),
     subscriptions_identified |-> Len(SectionsOf(data, "subscription")),
     analysis_date |-> "now"]

\* the "default structure" returned when anything raised
DefaultInsights(extracted_data) ==
    [spending_analysis |-> SpendingDefault,
     income_analysis |-> [total_income |-> 0, employers |-> {}, pay_cycles |-> EmptyDict,
                          monthly_income_trend |-> EmptyDict, average_monthly_income |-> 0],
     subscription_analysis |-> [active_subscriptions |-> 0, monthly_recurring_cost |-> 0,
                                services |-> <<>>, total_annual_cost |-> 0],
     travel_analysis |-> [total_trips |-> 0, preferred_airlines |-> <<>>,
                          preferred_hotels |-> <<>>],
     bills_analysis |-> [total_bills |-> 0, monthly_bill_amount |-> 0,
                         utility_breakdown |-> EmptyDict],
     investment_analysis |-> [total_investments |-> 0, platforms |-> {},
                              instruments |-> EmptyDict],
     financial_health |-> [savings_rate |-> 0, subscription_to_spending_ratio |-> 0,
                           financial_health_score |-> 50, monthly_surplus_deficit |-> 0],
     summary |-> [total_emails_analyzed |-> Len(extracted_data), financial_emails_found |-> 0,
                  transactions_extracted |-> 0, income_entries_found |-> 0,
                  subscriptions_identified |-> 0, analysis_date |-> "2025-08-20"]]

generate_comprehensive_insights(extracted_data) ==
    LET relevant_data == SelectSeq(extracted_data, LAMBDA r : Get(r, "is_relevant", FALSE))
        subscription_analysis == _analyze_subscriptions(relevant_data)
        travel_analysis == _analyze_travel(relevant_data)
        bills_analysis == _analyze_bills(relevant_data)
        investment_analysis == _analyze_investments(relevant_data)
        financial_health == _calculate_financial_health(relevant_data)
    IN  IF \/ subscription_analysis.raised
           \/ travel_analysis.raised
           \/ bills_analysis.raised
           \/ investment_analysis.raised
           \/ financial_health.raised
        THEN DefaultInsights(extracted_data)
        ELSE [spending_analysis |-> _analyze_spending(relevant_data),
              income_analysis |-> _analyze_income(relevant_data),
              subscription_analysis |-> subscription_analysis.value,
              travel_analysis |-> travel_analysis.value,
              bills_analysis |-> bills_analysis.value,
              investment_analysis |-> investment_analysis.value,
              financial_health |-> financial_health.value,
              summary |-> _generate_summary(relevant_data)]

(***************************************************************************)
(* Job store                                                               *)
(***************************************************************************)
NewJob(t) ==
    [status |-> "starting", progress |-> 0, total |-> 0,
     current_step |-> "Initializing", start_time |-> t, updated_at |-> None,
     results |-> None, error |-> None]

\* "if results:" for None or a dict that always has its four keys
TruthyDict(r) == r # None
\* "if error:" for None or a string
TruthyStr(e) == e # None /\ e[1] # ""

\* round(None, 1) raises TypeError before the record is touched
UpdateRaises(js, job_id, progress) == job_id \in DOMAIN js /\ progress = None

_update_job(js, job_id, status, progress, current_step, results, error, t) ==
    IF job_id \in DOMAIN js
    THEN [js EXCEPT ![job_id] =
            [@ EXCEPT !.status = status,
                      !.progress = Round1(progress[1]),
                      !.current_step = current_step,
                      !.updated_at = Some(t),
                      !.results = IF TruthyDict(results) THEN results ELSE @,
                      !.error = IF TruthyStr(error) THEN error ELSE @]]
    ELSE js

\* how a call of _update_job ends: it raises, or it returns with the store
\* as the call leaves it
UpdateOutcome(js, job_id, status, progress, current_step, results, error, t) ==
    IF UpdateRaises(js, job_id, progress) THEN Raised(RoundNoneMsg)
    ELSE Returned(_update_job(js, job_id, status, progress, current_step, results, error, t))

\* the except branch of _process_emails_async
FailJob(js, job_id, msg, t) ==
    _update_job(js, job_id, "failed", Some(Rat(0, 1)), "Error", None, Some(msg), t)

\* variant: a missing id is answered with a fresh record
get_job_status_or_new(job_id) ==
    IF job_id \in DOMAIN jobs THEN Some(jobs[job_id]) ELSE Some(NewJob(now))

get_job_status(job_id) == IF job_id \in DOMAIN jobs THEN Some(jobs[job_id]) ELSE None

Put(f, k, v) == [x \in DOMAIN f \cup {k} |-> IF x = k THEN v ELSE f[x]]

Remove(f, ks) == [x \in DOMAIN f \ ks |-> f[x]]

(***************************************************************************)
(* Locals of one run of _process_emails_async                              *)
(***************************************************************************)
NoProc ==
    [pc |-> "none", emails |-> <<>>, parsed_emails |-> <<>>, i |-> 0,
     stats |-> None, relevant_emails |-> <<>>, chunk_start |-> 0,
     tasks |-> <<>>, extracted_data |-> <<>>,
     caught |-> None, batch_raised |-> FALSE, overtaken |-> FALSE,
     fetched_with |-> None]

\* the task has ended with an exception: its locals are gone, what is kept is
\* the record of what happened: the message caught and whether it came from
\* a collaborator (fatal) or from the warning update, batch_raised, overtaken
Ended(p, fatal, msg) ==
    [NoProc EXCEPT !.pc = "done",
                   !.caught = Some([fatal |-> fatal, msg |-> msg]),
                   !.batch_raised = p.batch_raised,
                   !.overtaken = p.overtaken]

NumBatches(relevant) == (Len(relevant) + batch_size - 1) \div batch_size

\* positions a batch can have in the list of batches of a mailbox
BatchSlots == 1..((MaxEmails + batch_size - 1) \div batch_size)

\* variant: the slice of a batch runs one email too far
BatchesOverlapping(relevant) ==
    [k \in 1..NumBatches(relevant) |->
        [batch_idx |-> (k - 1) * batch_size,
         batch |-> SubSeq(relevant, (k - 1) * batch_size + 1,
                          Min(k * batch_size + 1, Len(relevant)))]]

\* batches.append((i, batch)) for i in range(0, len(relevant_emails), batch_size)
Batches(relevant) ==
    [k \in 1..NumBatches(relevant) |->
        [batch_idx |-> (k - 1) * batch_size,
         batch |-> SubSeq(relevant, (k - 1) * batch_size + 1,
                          Min(k * batch_size, Len(relevant)))]]

\* variant: the chunk is every batch that is left
ChunkOfAllRemaining(p) ==
    {k \in 1..Len(p.tasks) : p.chunk_start < k}

\* positions (1-based) of batches[chunk_start : chunk_start + max_concurrent_batches]
ChunkOf(p) ==
    {k \in 1..Len(p.tasks) : p.chunk_start < k /\ k <= p.chunk_start + max_concurrent_batches}

Finished(task) == task.state \in {"returned", "raised"}
InFlightTask(task) == task.state \in {"pending", "sleep", "thread"}

\* variant: the parse progress loses its base of 20
ParseProgressNoBase(i, n) == Rat(30 * i, n)

\* 20 + (i / len(emails)) * 30
ParseProgress(i, n) == Rat(20 * n + 30 * i, n)

\* variant: the processed count is not capped by the number of relevant emails
ChunkProgressUncapped(chunk_start, nbatches, nrelevant) ==
    LET processed == Min(chunk_start + max_concurrent_batches, nbatches) * batch_size
    IN  Rat(60 * nrelevant + 30 * processed, nrelevant)

\* 60 + (processed_emails / len(relevant_emails)) * 30
ChunkProgress(chunk_start, nbatches, nrelevant) ==
    LET processed == Min(Min(chunk_start + max_concurrent_batches, nbatches) * batch_size, nrelevant)
    IN  Rat(60 * nrelevant + 30 * processed, nrelevant)

Init ==
    /\ jobs = <<>>
    /\ issued = {}
    /\ now = 0
    /\ loop = 0
    /\ proc = [j \in JobIds |-> NoProc]
    /\ streams = <<>>
    /\ call = None
    /\ credentials = None

\* the wall clock advances
Tick ==
    /\ now < MaxTime
    /\ now' = now + 1
    /\ UNCHANGED <<jobs, issued, loop, proc, streams, call, credentials>>

\* the access token of the request that submits job_id: every request
\* carries its own
AccessToken(job_id) == job_id

\* variant: the id generator may repeat an id
StartProcessingJobReusingId(job_id) ==
    /\ loop = 0
    /\ proc[job_id].pc \in {"none", "done"}
    /\ issued' = issued \cup {job_id}
    /\ jobs' = Put(jobs, job_id, NewJob(now))
    /\ proc' = [proc EXCEPT ![job_id] = [NoProc EXCEPT !.pc = "scheduled"]]
    /\ credentials' = Some(AccessToken(job_id))
    /\ UNCHANGED <<now, loop, streams, call>>

\* variant: submission runs the task up to its fetch before it returns
StartProcessingJobInline(job_id) ==
    /\ loop = 0
    /\ job_id \notin issued
    /\ \A other \in JobIds : other < job_id => other \in issued
    /\ issued' = issued \cup {job_id}
    /\ jobs' = _update_job(Put(jobs, job_id, NewJob(now)), job_id, "running",
                           Some(Rat(10, 1)), "Fetching", None, None, now)
    /\ proc' = [proc EXCEPT ![job_id] = [NoProc EXCEPT !.pc = "fetch"]]
    /\ loop' = job_id
    /\ credentials' = Some(AccessToken(job_id))
    /\ UNCHANGED <<now, streams, call>>

\* the start-async request: gmail_service.set_credentials(access_token) on
\* the shared service, then start_processing_job.  uuid4 yields an id never
\* issued before; ids are opaque, so the fresh id is taken to be the least
\* one not issued yet
StartProcessingJob(job_id) ==
    /\ loop = 0
    /\ job_id \notin issued
    /\ \A other \in JobIds : other < job_id => other \in issued
    /\ issued' = issued \cup {job_id}
    /\ jobs' = Put(jobs, job_id, NewJob(now))
    /\ proc' = [proc EXCEPT ![job_id] = [NoProc EXCEPT !.pc = "scheduled"]]
    /\ credentials' = Some(AccessToken(job_id))
    /\ UNCHANGED <<now, loop, streams, call>>

\* variant: the task starts without its first update
TaskStartNoUpdate(j) ==
    /\ loop = 0
    /\ proc[j].pc = "scheduled"
    /\ proc' = [proc EXCEPT ![j].pc = "fetch"]
    /\ loop' = j
    /\ UNCHANGED <<jobs, issued, now, streams, call, credentials>>

\* the background task gets the loop and writes its first update
TaskStart(j) ==
    /\ loop = 0
    /\ proc[j].pc = "scheduled"
    /\ jobs' = _update_job(jobs, j, "running", Some(Rat(10, 1)), "Fetching", None, None, now)
    /\ proc' = [proc EXCEPT ![j].pc = "fetch"]
    /\ loop' = j
    /\ UNCHANGED <<issued, now, streams, call, credentials>>

\* the exception e reaches "except Exception as e" and ends the task
Caught(j, msg) ==
    /\ jobs' = FailJob(jobs, j, msg, now)
    /\ proc' = [proc EXCEPT ![j] = Ended(proc[j], TRUE, msg)]
    /\ loop' = 0

\* gmail_service.fetch_emails_last_6_months() and the update that follows
FetchEmails(j, boxes) ==
    /\ loop = j
    /\ proc[j].pc = "fetch"
    /\ \/ \E m \in boxes :
            /\ jobs' = _update_job(jobs, j, "running", Some(Rat(20, 1)), "Fetched", None, None, now)
            /\ proc' = [proc EXCEPT ![j].pc = "parse", ![j].emails = m, ![j].i = 0,
                                     ![j].fetched_with = credentials]
            /\ loop' = j
       \/ \E msg \in Messages : Caught(j, msg)
    /\ UNCHANGED <<issued, now, streams, call, credentials>>

\* one iteration of "for i, email in enumerate(emails)"
ParseEmail(j) ==
    /\ loop = j
    /\ proc[j].pc = "parse"
    /\ proc[j].i < Len(proc[j].emails)
    /\ \/ /\ jobs' = IF proc[j].i % ParseUpdateEvery = 0
                     THEN _update_job(jobs, j, "running",
                                      Some(ParseProgress(proc[j].i, Len(proc[j].emails))),
                                      "Parsing", None, None, now)
                     ELSE jobs
          /\ proc' = [proc EXCEPT
                        ![j].parsed_emails =
                            Append(@, ParseEmailRecord(proc[j].emails[proc[j].i + 1])),
                        ![j].i = @ + 1]
          /\ loop' = j
       \/ \E msg \in Messages : Caught(j, msg)
    /\ UNCHANGED <<issued, now, streams, call, credentials>>

\* the loop is over: the update before classification
ClassifyStart(j) ==
    /\ loop = j
    /\ proc[j].pc = "parse"
    /\ proc[j].i = Len(proc[j].emails)
    /\ jobs' = _update_job(jobs, j, "running", Some(Rat(50, 1)), "Classifying", None, None, now)
    /\ proc' = [proc EXCEPT ![j].pc = "classify"]
    /\ UNCHANGED <<issued, now, loop, streams, call, credentials>>

\* classify_emails_batch, get_classification_stats, the 60 update, the batches
Classify(j) ==
    /\ loop = j
    /\ proc[j].pc = "classify"
    /\ \/ LET classified == classify_emails_batch(proc[j].parsed_emails)
              relevant == classified.definitely_financial \o classified.maybe_financial
          IN  /\ jobs' = _update_job(jobs, j, "running", Some(Rat(60, 1)), "Processing", None, None, now)
              /\ proc' = [proc EXCEPT
                            ![j].pc = "extract",
                            ![j].stats = Some(get_classification_stats(classified)),
                            ![j].relevant_emails = relevant,
                            ![j].chunk_start = 0,
                            ![j].extracted_data = <<>>,
                            ![j].tasks = [k \in 1..NumBatches(relevant) |->
                                            [state |-> "new", result |-> <<>>]]]
              /\ loop' = j
       \/ \E msg \in Messages : Caught(j, msg)
    /\ UNCHANGED <<issued, now, streams, call, credentials>>

\* variant: only the first task of the chunk is handed to the loop
DispatchChunkFirstOnly(j) ==
    /\ loop = j
    /\ proc[j].pc = "extract"
    /\ proc[j].chunk_start < Len(proc[j].tasks)
    /\ proc' = [proc EXCEPT
                  ![j].pc = "gather",
                  ![j].tasks = [k \in DOMAIN @ |->
                                  IF k = proc[j].chunk_start + 1
                                  THEN [@[k] EXCEPT !.state = "pending"] ELSE @[k]]]
    /\ loop' = 0
    /\ UNCHANGED <<jobs, issued, now, streams, call, credentials>>

\* variant: a chunk is dispatched even when no batch is left
DispatchChunkWhenNoneLeft(j) ==
    /\ loop = j
    /\ proc[j].pc = "extract"
    /\ proc[j].chunk_start <= Len(proc[j].tasks)
    /\ proc' = [proc EXCEPT
                  ![j].pc = "gather",
                  ![j].tasks = [k \in DOMAIN @ |->
                                  IF k \in ChunkOf(proc[j])
                                  THEN [@[k] EXCEPT !.state = "pending"] ELSE @[k]]]
    /\ loop' = 0
    /\ UNCHANGED <<jobs, issued, now, streams, call, credentials>>

\* the tasks of one chunk are created and the coroutine awaits gather
DispatchChunk(j) ==
    /\ loop = j
    /\ proc[j].pc = "extract"
    /\ proc[j].chunk_start < Len(proc[j].tasks)
    /\ proc' = [proc EXCEPT
                  ![j].pc = "gather",
                  ![j].tasks = [k \in DOMAIN @ |->
                                  IF k \in ChunkOf(proc[j])
                                  THEN [@[k] EXCEPT !.state = "pending"] ELSE @[k]]]
    /\ loop' = 0
    /\ UNCHANGED <<jobs, issued, now, streams, call, credentials>>

\* _process_batch_async runs to its first await (tasks start in creation order)
BatchStart(j, k) ==
    /\ loop = 0
    /\ proc[j].pc = "gather"
    /\ k \in DOMAIN proc[j].tasks
    /\ proc[j].tasks[k].state = "pending"
    /\ \A k2 \in ChunkOf(proc[j]) : k2 < k => proc[j].tasks[k2].state # "pending"
    /\ proc' = [proc EXCEPT ![j].tasks[k].state =
                  IF Batches(proc[j].relevant_emails)[k].batch_idx > 0 THEN "sleep" ELSE "thread"]
    /\ UNCHANGED <<jobs, issued, now, loop, streams, call, credentials>>

\* asyncio.sleep(0.1) is over: the batch goes to the worker thread
BatchWake(j, k) ==
    /\ loop = 0
    /\ proc[j].pc = "gather"
    /\ k \in DOMAIN proc[j].tasks
    /\ proc[j].tasks[k].state = "sleep"
    /\ proc' = [proc EXCEPT ![j].tasks[k].state = "thread"]
    /\ UNCHANGED <<jobs, issued, now, loop, streams, call, credentials>>

\* variant: the batch operation writes the job's step when it is done
BatchFinishUpdating(j, k, o) ==
    /\ loop = 0
    /\ proc[j].pc = "gather"
    /\ k \in DOMAIN proc[j].tasks
    /\ proc[j].tasks[k].state = "thread"
    /\ LET b == Batches(proc[j].relevant_emails)[k].batch
           r == extract_insights_batch(b, Len(b), o)
       IN  proc' = [proc EXCEPT
                      ![j].tasks[k] = IF r.raised
                                      THEN [state |-> "raised", result |-> <<>>]
                                      ELSE [state |-> "returned", result |-> r.value],
                      ![j].batch_raised = @ \/ r.raised,
                      ![j].overtaken = @ \/ \E k2 \in ChunkOf(proc[j]) :
                                              k2 < k /\ ~Finished(proc[j].tasks[k2])]
    /\ jobs' = [jobs EXCEPT ![j].current_step = "Batch done"]
    /\ UNCHANGED <<issued, now, loop, streams, call, credentials>>

\* the worker thread is done and _process_batch_async returns or raises
BatchFinish(j, k, o) ==
    /\ loop = 0
    /\ proc[j].pc = "gather"
    /\ k \in DOMAIN proc[j].tasks
    /\ proc[j].tasks[k].state = "thread"
    /\ LET b == Batches(proc[j].relevant_emails)[k].batch
           r == extract_insights_batch(b, Len(b), o)
       IN  proc' = [proc EXCEPT
                      ![j].tasks[k] = IF r.raised
                                      THEN [state |-> "raised", result |-> <<>>]
                                      ELSE [state |-> "returned", result |-> r.value],
                      ![j].batch_raised = @ \/ r.raised,
                      ![j].overtaken = @ \/ \E k2 \in ChunkOf(proc[j]) :
                                              k2 < k /\ ~Finished(proc[j].tasks[k2])]
    /\ UNCHANGED <<jobs, issued, now, loop, streams, call, credentials>>

RECURSIVE Gathered(_, _, _)
\* "for result in batch_results": the results before the first exception
Gathered(tasks, k, last) ==
    IF k > last \/ tasks[k].state = "raised" THEN <<>>
    ELSE tasks[k].result \o Gathered(tasks, k + 1, last)

\* variant: the join returns as soon as one batch of the chunk is done
JoinChunkFirstCompleted(j) ==
    /\ loop = 0
    /\ proc[j].pc = "gather"
    /\ \E k \in ChunkOf(proc[j]) : Finished(proc[j].tasks[k])
    /\ LET p == proc[j]
           last == Min(p.chunk_start + max_concurrent_batches, Len(p.tasks))
           data == p.extracted_data \o Gathered(p.tasks, p.chunk_start + 1, last)
       IN  /\ jobs' = _update_job(jobs, j, "running",
                          Some(ChunkProgress(p.chunk_start, Len(p.tasks), Len(p.relevant_emails))),
                          "AI processing", None, None, now)
           /\ proc' = [proc EXCEPT ![j].pc = "extract", ![j].extracted_data = data,
                         ![j].chunk_start = @ + max_concurrent_batches]
           /\ loop' = j
    /\ UNCHANGED <<issued, now, streams, call, credentials>>

\* gather returns; the results are folded and the chunk's progress is written
JoinChunk(j) ==
    /\ loop = 0
    /\ proc[j].pc = "gather"
    /\ \A k \in ChunkOf(proc[j]) : Finished(proc[j].tasks[k])
    /\ LET p == proc[j]
           last == Min(p.chunk_start + max_concurrent_batches, Len(p.tasks))
           data == p.extracted_data \o Gathered(p.tasks, p.chunk_start + 1, last)
       IN  IF \E k \in ChunkOf(p) : p.tasks[k].state = "raised"
           THEN \* the warning update passes progress None
                IF UpdateRaises(jobs, j, None)
                THEN /\ jobs' = FailJob(jobs, j, RoundNoneMsg, now)
                     /\ proc' = [proc EXCEPT ![j] = Ended(p, FALSE, RoundNoneMsg)]
                     /\ loop' = 0
                ELSE /\ jobs' = jobs
                     /\ proc' = [proc EXCEPT ![j].pc = "extract", ![j].extracted_data = data,
                                   ![j].chunk_start = @ + max_concurrent_batches]
                     /\ loop' = j
           ELSE /\ jobs' = _update_job(jobs, j, "running",
                              Some(ChunkProgress(p.chunk_start, Len(p.tasks), Len(p.relevant_emails))),
                              "AI processing", None, None, now)
                /\ proc' = [proc EXCEPT ![j].pc = "extract", ![j].extracted_data = data,
                              ![j].chunk_start = @ + max_concurrent_batches]
                /\ loop' = j
    /\ UNCHANGED <<issued, now, streams, call, credentials>>

\* variant: aggregation starts while chunks are left
AggregateStartEarly(j) ==
    /\ loop = j
    /\ proc[j].pc = "extract"
    /\ jobs' = _update_job(jobs, j, "running", Some(Rat(90, 1)), "Generating", None, None, now)
    /\ proc' = [proc EXCEPT ![j].pc = "aggregate"]
    /\ UNCHANGED <<issued, now, loop, streams, call, credentials>>

\* no chunk is left: the update before aggregation
AggregateStart(j) ==
    /\ loop = j
    /\ proc[j].pc = "extract"
    /\ proc[j].chunk_start >= Len(proc[j].tasks)
    /\ jobs' = _update_job(jobs, j, "running", Some(Rat(90, 1)), "Generating", None, None, now)
    /\ proc' = [proc EXCEPT ![j].pc = "aggregate"]
    /\ UNCHANGED <<issued, now, loop, streams, call, credentials>>

\* variant: the metadata counts the relevant emails as the fetched ones
FinalResultsCountingRelevant(p, t) ==
    [analytics |-> generate_comprehensive_insights(p.extracted_data),
     classification_stats |-> p.stats[1],
     extracted_insights |-> p.extracted_data,
     metadata |-> [total_emails_fetched |-> Len(p.relevant_emails),
                   financial_emails_processed |-> Len(p.relevant_emails),
                   ai_processing_reduction |-> p.stats[1].ai_processing_reduction,
                   processing_completed_at |-> t]]

FinalResults(p, t) ==
    [analytics |-> generate_comprehensive_insights(p.extracted_data),
     classification_stats |-> p.stats[1],
     extracted_insights |-> p.extracted_data,
     metadata |-> [total_emails_fetched |-> Len(p.emails),
                   financial_emails_processed |-> Len(p.relevant_emails),
                   ai_processing_reduction |-> p.stats[1].ai_processing_reduction,
                   processing_completed_at |-> t]]

\* variant: the final update is written without the results
AggregateWithoutResults(j) ==
    /\ loop = j
    /\ proc[j].pc = "aggregate"
    /\ \/ /\ jobs' = _update_job(jobs, j, "completed", Some(Rat(100, 1)), "Completed",
                                 None, None, now)
          /\ proc' = [proc EXCEPT ![j].pc = "done"]
          /\ loop' = 0
       \/ \E msg \in Messages : Caught(j, msg)
    /\ UNCHANGED <<issued, now, streams, call, credentials>>

\* generate_comprehensive_insights and the final update
Aggregate(j) ==
    /\ loop = j
    /\ proc[j].pc = "aggregate"
    /\ \/ /\ jobs' = _update_job(jobs, j, "completed", Some(Rat(100, 1)), "Completed",
                                 Some(FinalResults(proc[j], now)), None, now)
          /\ proc' = [proc EXCEPT ![j].pc = "done"]
          /\ loop' = 0
       \/ \E msg \in Messages : Caught(j, msg)
    /\ UNCHANGED <<issued, now, streams, call, credentials>>

\* variant: the age alone decides what is removed
CleanupOldJobsAnyStatus(max_age_hours) ==
    /\ loop = 0
    /\ LET cutoff_time == now - max_age_hours
           jobs_to_remove == {id \in DOMAIN jobs : jobs[id].start_time < cutoff_time}
       IN  /\ jobs' = Remove(jobs, jobs_to_remove)
           /\ proc' = [j \in JobIds |->
                         IF j \in jobs_to_remove THEN [NoProc EXCEPT !.pc = "done"]
                         ELSE proc[j]]
           /\ streams' = streams
    /\ UNCHANGED <<issued, now, loop, call, credentials>>

\* cleanup_old_jobs(max_age_hours); the clock counts hours
CleanupOldJobs(max_age_hours) ==
    /\ loop = 0
    /\ LET cutoff_time == now - max_age_hours
           jobs_to_remove == {id \in DOMAIN jobs :
                                /\ jobs[id].start_time < cutoff_time
                                /\ jobs[id].status \in {"completed", "failed"}}
       IN  /\ jobs' = Remove(jobs, jobs_to_remove)
           \* nothing of a removed job's finished task is looked at again
           /\ proc' = [j \in JobIds |->
                         IF j \in jobs_to_remove THEN [NoProc EXCEPT !.pc = "done"]
                         ELSE proc[j]]
           \* a generator suspended at its snapshot yield keeps its reference
           \* to the dict that "del self.jobs[job_id]" took out of the store
           /\ streams' = [s \in DOMAIN streams |->
                            IF streams[s].pc = "yielded" /\ streams[s].job_id \in jobs_to_remove
                            THEN [streams[s] EXCEPT !.held = Some(jobs[streams[s].job_id])]
                            ELSE streams[s]]
    /\ UNCHANGED <<issued, now, loop, call, credentials>>

MaxAges == {0, 1}

(***************************************************************************)
(* get_job_stream.  A stream is one run of the async generator: its local  *)
(* last_progress, its position (about to poll, suspended at the snapshot   *)
(* yield, suspended at the final yield, closed) and the items it yielded.  *)
(* at_open records what the store held for the id when the stream was      *)
(* requested.                                                              *)
(***************************************************************************)
StreamIds == {1, 2}

\* ids no call of uuid4 returns
UnknownIds == JobIds \ SoloIds

NotFoundItem == [kind |-> "notfound", status |-> "", progress |-> -1, payload |-> None]
SnapshotItem(job) ==
    [kind |-> "snapshot", status |-> job.status, progress |-> job.progress, payload |-> None]
ResultsItem(job) ==
    [kind |-> "results", status |-> "", progress |-> -1, payload |-> job.results]
\* job.get("error", "Unknown error"): the key is always there
ErrorItem(job) ==
    [kind |-> "error", status |-> "", progress |-> -1, payload |-> job.error]

NewStream(job_id) ==
    [job_id |-> job_id, pc |-> "poll", last_progress |-> -1, held |-> None, out |-> <<>>,
     at_open |-> IF job_id \in DOMAIN jobs THEN jobs[job_id].status ELSE "absent"]

\* variant: the terminal check yields its payload and goes on polling
StatusCheckKeepPolling(st, job) ==
    IF job.status = "completed" /\ TruthyDict(job.results)
    THEN [st EXCEPT !.pc = "poll", !.out = Append(@, ResultsItem(job))]
    ELSE IF job.status = "failed"
    THEN [st EXCEPT !.pc = "poll", !.out = Append(@, ErrorItem(job))]
    ELSE [st EXCEPT !.pc = "poll"]

\* variant: only a Completed job ends the loop
StatusCheckCompletedOnly(st, job) ==
    IF job.status = "completed" /\ TruthyDict(job.results)
    THEN [st EXCEPT !.pc = "final", !.out = Append(@, ResultsItem(job))]
    ELSE [st EXCEPT !.pc = "poll"]

\* "if job['status'] in ['completed', 'failed']: ... break", else sleep(1)
StatusCheck(st, job) ==
    IF job.status \in {"completed", "failed"}
    THEN IF job.status = "completed" /\ TruthyDict(job.results)
         THEN [st EXCEPT !.pc = "final", !.out = Append(@, ResultsItem(job))]
         ELSE IF job.status = "failed"
         THEN [st EXCEPT !.pc = "final", !.out = Append(@, ErrorItem(job))]
         ELSE [st EXCEPT !.pc = "closed"]
    ELSE [st EXCEPT !.pc = "poll"]

\* the request handler builds the generator; nothing of its body runs yet
StreamOpen(s, job_id) ==
    /\ loop = 0
    /\ s \notin DOMAIN streams
    /\ \A other \in StreamIds : other < s => other \in DOMAIN streams
    /\ job_id \in issued \cup UnknownIds
    /\ streams' = Put(streams, s, NewStream(job_id))
    /\ UNCHANGED <<jobs, issued, now, loop, proc, call, credentials>>

\* one turn of "while True" up to its first yield, its break or its sleep,
\* for the answer of get_job_status
PollOnce(st, job) ==
    IF job = None
    THEN [st EXCEPT !.pc = "final", !.out = Append(@, NotFoundItem)]
    ELSE IF job[1].progress # st.last_progress
    THEN [st EXCEPT !.pc = "yielded", !.out = Append(@, SnapshotItem(job[1]))]
    ELSE StatusCheck(st, job[1])

StreamPoll(s) ==
    /\ loop = 0
    /\ s \in DOMAIN streams
    /\ streams[s].pc = "poll"
    /\ streams' = [streams EXCEPT ![s] = PollOnce(streams[s], get_job_status(streams[s].job_id))]
    /\ UNCHANGED <<jobs, issued, now, loop, proc, call, credentials>>

\* the consumer asks for the next item after a snapshot: the generator goes
\* on with "last_progress = job['progress']", read from the dict it holds
StreamResume(s) ==
    /\ loop = 0
    /\ s \in DOMAIN streams
    /\ streams[s].pc = "yielded"
    /\ LET st == streams[s]
           job == IF st.held # None THEN st.held[1] ELSE jobs[st.job_id]
       IN  streams' = [streams EXCEPT ![s] =
              StatusCheck([st EXCEPT !.last_progress = job.progress, !.held = None], job)]
    /\ UNCHANGED <<jobs, issued, now, loop, proc, call, credentials>>

\* the consumer asks for the next item after the last yield: break
StreamClose(s) ==
    /\ loop = 0
    /\ s \in DOMAIN streams
    /\ streams[s].pc = "final"
    /\ streams' = [streams EXCEPT ![s].pc = "closed"]
    /\ UNCHANGED <<jobs, issued, now, loop, proc, call, credentials>>

Next ==
    \/ Tick
    \/ \E j \in SoloIds : StartProcessingJob(j)
    \/ \E j \in SoloIds : TaskStart(j)
    \/ \E j \in SoloIds : FetchEmails(j, DeepMailboxes)
    \/ \E j \in SoloIds : ParseEmail(j)
    \/ \E j \in SoloIds : ClassifyStart(j)
    \/ \E j \in SoloIds : Classify(j)
    \/ \E j \in SoloIds : DispatchChunk(j)
    \/ \E j \in SoloIds : \E k \in BatchSlots : BatchStart(j, k)
    \/ \E j \in SoloIds : \E k \in BatchSlots : BatchWake(j, k)
    \/ \E j \in SoloIds : \E k \in BatchSlots : \E o \in Oracles : BatchFinish(j, k, o)
    \/ \E j \in SoloIds : JoinChunk(j)
    \/ \E j \in SoloIds : AggregateStart(j)
    \/ \E j \in SoloIds : Aggregate(j)
    \/ \E h \in MaxAges : CleanupOldJobs(h)

Spec == Init /\ [][Next]_vars

NextJobs ==
    \/ Tick
    \/ \E j \in JobIds : StartProcessingJob(j)
    \/ \E j \in JobIds : TaskStart(j)
    \/ \E j \in JobIds : FetchEmails(j, SharedMailboxes)
    \/ \E j \in JobIds : ParseEmail(j)
    \/ \E j \in JobIds : ClassifyStart(j)
    \/ \E j \in JobIds : Classify(j)
    \/ \E j \in JobIds : DispatchChunk(j)
    \/ \E j \in JobIds : \E k \in BatchSlots : BatchStart(j, k)
    \/ \E j \in JobIds : \E k \in BatchSlots : BatchWake(j, k)
    \/ \E j \in JobIds : \E k \in BatchSlots : \E o \in SharedOracles : BatchFinish(j, k, o)
    \/ \E j \in JobIds : JoinChunk(j)
    \/ \E j \in JobIds : AggregateStart(j)
    \/ \E j \in JobIds : Aggregate(j)
    \/ \E h \in MaxAges : CleanupOldJobs(h)

SpecJobs == Init /\ [][NextJobs]_vars

JobStep(j, boxes, oracles) ==
    \/ TaskStart(j)
    \/ FetchEmails(j, boxes)
    \/ ParseEmail(j)
    \/ ClassifyStart(j)
    \/ Classify(j)
    \/ DispatchChunk(j)
    \/ \E k \in BatchSlots : BatchStart(j, k)
    \/ \E k \in BatchSlots : BatchWake(j, k)
    \/ \E k \in BatchSlots : \E o \in oracles : BatchFinish(j, k, o)
    \/ JoinChunk(j)
    \/ AggregateStart(j)
    \/ Aggregate(j)

NextStreams ==
    \/ Tick
    \/ \E j \in SoloIds : StartProcessingJob(j)
    \/ \E j \in SoloIds : TaskStart(j)
    \/ \E j \in SoloIds : FetchEmails(j, SharedMailboxes)
    \/ \E j \in SoloIds : ParseEmail(j)
    \/ \E j \in SoloIds : ClassifyStart(j)
    \/ \E j \in SoloIds : Classify(j)
    \/ \E j \in SoloIds : DispatchChunk(j)
    \/ \E j \in SoloIds : \E k \in BatchSlots : BatchStart(j, k)
    \/ \E j \in SoloIds : \E k \in BatchSlots : BatchWake(j, k)
    \/ \E j \in SoloIds : \E k \in BatchSlots : \E o \in SharedOracles : BatchFinish(j, k, o)
    \/ \E j \in SoloIds : JoinChunk(j)
    \/ \E j \in SoloIds : AggregateStart(j)
    \/ \E j \in SoloIds : Aggregate(j)
    \/ \E h \in MaxAges : CleanupOldJobs(h)
    \/ \E s \in StreamIds : \E j \in JobIds : StreamOpen(s, j)
    \/ \E s \in StreamIds : StreamPoll(s)
    \/ \E s \in StreamIds : StreamResume(s)
    \/ \E s \in StreamIds : StreamClose(s)

SpecStreams == Init /\ [][NextStreams]_vars

\* one stream beside the job, for the properties of what happens eventually
SoloStreamIds == {1}

NextLive ==
    \/ Tick
    \/ \E j \in SoloIds : StartProcessingJob(j)
    \/ \E j \in SoloIds : TaskStart(j)
    \/ \E j \in SoloIds : FetchEmails(j, SharedMailboxes)
    \/ \E j \in SoloIds : ParseEmail(j)
    \/ \E j \in SoloIds : ClassifyStart(j)
    \/ \E j \in SoloIds : Classify(j)
    \/ \E j \in SoloIds : DispatchChunk(j)
    \/ \E j \in SoloIds : \E k \in BatchSlots : BatchStart(j, k)
    \/ \E j \in SoloIds : \E k \in BatchSlots : BatchWake(j, k)
    \/ \E j \in SoloIds : \E k \in BatchSlots : \E o \in SharedOracles : BatchFinish(j, k, o)
    \/ \E j \in SoloIds : JoinChunk(j)
    \/ \E j \in SoloIds : AggregateStart(j)
    \/ \E j \in SoloIds : Aggregate(j)
    \/ \E h \in MaxAges : CleanupOldJobs(h)
    \/ \E s \in SoloStreamIds : \E j \in JobIds : StreamOpen(s, j)
    \/ \E s \in SoloStreamIds : StreamPoll(s)
    \/ \E s \in SoloStreamIds : StreamResume(s)
    \/ \E s \in SoloStreamIds : StreamClose(s)

\* the event loop runs every ready callback and every worker thread returns
\* or raises; submissions, stream requests, cleanup and the clock are the
\* environment's
Fairness ==
    /\ \A j \in SoloIds : WF_vars(JobStep(j, SharedMailboxes, SharedOracles))
    /\ \A s \in SoloStreamIds : WF_vars(StreamPoll(s) \/ StreamResume(s) \/ StreamClose(s))

SpecLive == Init /\ [][NextLive]_vars /\ Fairness

(***************************************************************************)
(* Direct calls of the classifier and of the extractor, on inputs drawn    *)
(* from bounded sets.  call holds the call made: its arguments and how it  *)
(* ended.                                                                  *)
(***************************************************************************)
\* the parsed emails with the given texts, ids 1..n
ParsedList(kinds) == [i \in 1..Len(kinds) |-> ParseEmailRecord(RawEmail(i, kinds[i]))]

KindLists == UNION {[1..n -> Kinds] : n \in 0..MaxCallEmails}

\* what the model answers to the requests of one group of emails: to the
\* combined request and to every single-email request of a replay
GroupResps ==
    {[batch |-> "full", single |-> "dict"],
     [batch |-> "short", single |-> "dict"],
     [batch |-> "long", single |-> "dict"],
     [batch |-> "object", single |-> "dict"],
     [batch |-> "notjson", single |-> "raise"],
     [batch |-> "raise", single |-> "nondict"]}

RECURSIVE ExtractGroups(_, _, _, _, _, _)
\* "for i in range(0, len(emails), batch_size)" with the g-th group of emails
\* answered as resps[g]
ExtractGroups(emails, size, model, resps, g, results) ==
    LET i == (g - 1) * size + 1
    IN  IF i > Len(emails) THEN Returned(results)
        ELSE LET batch == SubSeq(emails, i, Min(i + size - 1, Len(emails)))
                 o == [model |-> model, batch |-> resps[g].batch, single |-> resps[g].single]
                 r == ExtractGroup(batch, o)
             IN  IF r.raised THEN r
                 ELSE ExtractGroups(emails, size, model, resps, g + 1, results \o r.value)

\* extract_insights_batch(emails, batch_size) when the answers differ by group
extract_insights_grouped(emails, size, model, resps) ==
    IF Len(emails) = 0 THEN Returned(<<>>)
    ELSE ExtractGroups(emails, size, model, resps, 1, <<>>)

NoGroups(n, size) == (n + size - 1) \div size

ClassifyEmailCall(kind) ==
    /\ call = None
    /\ LET email == ParseEmailRecord(RawEmail(1, kind))
       IN  call' = Some([fn |-> "classify_email", email |-> email,
                         result |-> classify_email(email)])
    /\ UNCHANGED <<jobs, issued, now, loop, proc, streams, credentials>>

ClassifyBatchCall(kinds) ==
    /\ call = None
    /\ LET emails == ParsedList(kinds)
       IN  call' = Some([fn |-> "classify_emails_batch", emails |-> emails,
                         result |-> classify_emails_batch(emails)])
    /\ UNCHANGED <<jobs, issued, now, loop, proc, streams, credentials>>

\* a partition with d, m and p emails in its three buckets
Partition(d, m, p) ==
    [definitely_financial |-> ParsedList([i \in 1..d |-> "cardtxn"]),
     maybe_financial |-> ParsedList([i \in 1..m |-> "brand"]),
     probably_not |-> ParsedList([i \in 1..p |-> "promo"])]

GetStatsCall(d, m, p) ==
    /\ call = None
    /\ call' = Some([fn |-> "get_classification_stats", partition |-> Partition(d, m, p),
                     result |-> get_classification_stats(Partition(d, m, p))])
    /\ UNCHANGED <<jobs, issued, now, loop, proc, streams, credentials>>

ExtractOneCall(kind, o) ==
    /\ call = None
    /\ LET email == ParseEmailRecord(RawEmail(1, kind))
       IN  call' = Some([fn |-> "extract_financial_insights", email |-> email, oracle |-> o,
                         result |-> extract_financial_insights(email, o)])
    /\ UNCHANGED <<jobs, issued, now, loop, proc, streams, credentials>>

ExtractBatchCall(n, size, model, resps) ==
    /\ call = None
    /\ LET emails == ParsedList([i \in 1..n |-> MixCycle[((i - 1) % Len(MixCycle)) + 1]])
       IN  call' = Some([fn |-> "extract_insights_batch", emails |-> emails,
                         batch_size |-> size, model |-> model, resps |-> resps,
                         result |-> extract_insights_grouped(emails, size, model, resps)])
    /\ UNCHANGED <<jobs, issued, now, loop, proc, streams, credentials>>

\* one combined request for the first n emails of the mixed mailbox
ProcessBatchCall(n, o) ==
    /\ call = None
    /\ LET emails == ParsedList([i \in 1..n |-> MixCycle[((i - 1) % Len(MixCycle)) + 1]])
       IN  call' = Some([fn |-> "_process_batch_with_ai", emails |-> emails, oracle |-> o,
                         result |-> _process_batch_with_ai(emails, o)])
    /\ UNCHANGED <<jobs, issued, now, loop, proc, streams, credentials>>

\* a transaction record
Tx(type, amount, date) ==
    [transaction_type |-> Some(type), amount |-> amount, date |-> date,
     category |-> IF amount = Some(30) THEN "Food" ELSE "Shopping",
     merchant |-> IF date = "2025-02-03" THEN "Amazon" ELSE "Swiggy"]

\* expenses of 30 and 70 with parseable and unparseable dates, a refund, an
\* expense whose amount is null, one whose amount is 0 and one without date
TxOpts ==
    {Tx("expense", Some(a), d) : a \in {30, 70}, d \in {"2025-01-15", "2025-02-03", "15/01/2025"}}
        \cup {Tx("refund", Some(70), "2025-01-15"), Tx("expense", None, "2025-01-15"),
              Tx("expense", Some(0), "2025-02-03"),
              [transaction_type |-> Some("expense"), amount |-> Some(30)]}

Sub(amount, cycle) ==
    [service |-> Some("netflix"), amount |-> amount, billing_cycle |-> cycle,
     next_billing |-> None]

\* subscriptions of every cycle, one without billing_cycle, and null amounts
SubOpts ==
    {Sub(Some(120), Some("yearly")), Sub(Some(100), Some("yearly")),
     Sub(Some(50), Some("weekly")), Sub(Some(15), Some("monthly")),
     Sub(Some(40), Some("quarterly")), Sub(Some(9), None),
     [service |-> Some("spotify"), amount |-> Some(9)],
     Sub(None, Some("monthly")), Sub(None, Some("quarterly"))}

\* the records that hold only the given section values
ItemsOf(k, values) == [i \in 1..Len(values) |-> [is_relevant |-> TRUE] @@ (k :> Some(values[i]))]

ListsOf(S, n) == UNION {[1..m -> S] : m \in 0..n}

AnalyzeSpendingCall(txs) ==
    /\ call = None
    /\ call' = Some([fn |-> "_analyze_spending", data |-> ItemsOf("transaction", txs),
                     result |-> _analyze_spending(ItemsOf("transaction", txs))])
    /\ UNCHANGED <<jobs, issued, now, loop, proc, streams, credentials>>

AnalyzeSubscriptionsCall(subs) ==
    /\ call = None
    /\ call' = Some([fn |-> "_analyze_subscriptions", data |-> ItemsOf("subscription", subs),
                     result |-> _analyze_subscriptions(ItemsOf("subscription", subs))])
    /\ UNCHANGED <<jobs, issued, now, loop, proc, streams, credentials>>

Income(amount) ==
    [amount |-> amount, employer |-> Some("acme"), pay_cycle |-> Some("monthly"),
     date |-> "2025-01-31"]

\* records with an expense, an income and a monthly subscription, each of
\* which may be missing
HealthItems ==
    {[is_relevant |-> TRUE,
      transaction |-> IF t = 0 THEN None ELSE Some(Tx("expense", Some(t), "2025-01-15")),
      income |-> IF i = 0 THEN None ELSE Some(Income(Some(i))),
      subscription |-> IF u = 0 THEN None ELSE Some(Sub(Some(u), Some("monthly")))] :
        t \in {0, 70, 80, 85, 90, 100, 120}, i \in {0, 100}, u \in {0, 5, 8, 20, 50}}
        \cup {[is_relevant |-> TRUE, subscription |-> Some(Sub(None, Some("yearly")))]}

FinancialHealthCall(data) ==
    /\ call = None
    /\ call' = Some([fn |-> "_calculate_financial_health", data |-> data,
                     result |-> _calculate_financial_health(data)])
    /\ UNCHANGED <<jobs, issued, now, loop, proc, streams, credentials>>

\* a record with every section, all amounts numbers
FullItem ==
    [is_relevant |-> TRUE,
     transaction |-> Some(Tx("expense", Some(70), "2025-01-15")),
     income |-> Some(Income(Some(100))),
     subscription |-> Some(Sub(Some(120), Some("yearly"))),
     travel |-> Some([airline |-> Some("indigo"), hotel |-> None, destination |-> Some("goa"),
                      booking_amount |-> Some(60)]),
     bills |-> Some([utility_type |-> "electricity", amount |-> Some(40),
                     provider |-> Some("bescom")]),
     investment |-> Some([platform |-> Some("zerodha"), instrument |-> Some("mf"),
                          amount |-> Some(200), action |-> Some("buy")])]

\* a record as _fallback_extraction builds it when it finds no transaction
HeuristicItem ==
    [transaction |-> None, subscription |-> None, travel |-> None, bills |-> None,
     card_info |-> None, is_relevant |-> TRUE]

\* records with one section, sound or with a null amount, a record that is
\* not relevant, a heuristic record and a record with every section
ReportItems ==
    {[is_relevant |-> TRUE, transaction |-> FullItem.transaction],
     [is_relevant |-> FALSE, transaction |-> FullItem.transaction],
     [is_relevant |-> TRUE, income |-> FullItem.income],
     [is_relevant |-> TRUE, income |-> Some(Income(None))],
     [is_relevant |-> TRUE, subscription |-> FullItem.subscription],
     [is_relevant |-> TRUE, subscription |-> Some(Sub(None, Some("monthly")))],
     [is_relevant |-> TRUE, travel |-> FullItem.travel],
     [is_relevant |-> TRUE, travel |-> Some([airline |-> Some("indigo"),
                                             booking_amount |-> None])],
     [is_relevant |-> TRUE, bills |-> FullItem.bills],
     [is_relevant |-> TRUE, bills |-> Some([utility_type |-> "water", amount |-> None])],
     [is_relevant |-> TRUE, investment |-> FullItem.investment],
     [is_relevant |-> TRUE, investment |-> Some([platform |-> Some("zerodha"),
                                                 amount |-> None, action |-> Some("buy")])],
     HeuristicItem, FullItem}

GenerateInsightsCall(data) ==
    /\ call = None
    /\ call' = Some([fn |-> "generate_comprehensive_insights", data |-> data,
                     result |-> generate_comprehensive_insights(data)])
    /\ UNCHANGED <<jobs, issued, now, loop, proc, streams, credentials>>

\* one call is made from the initial state; after it nothing is enabled
NextCalls ==
    \/ call = None /\ \E kind \in Kinds : ClassifyEmailCall(kind)
    \/ call = None /\ \E kinds \in KindLists : ClassifyBatchCall(kinds)
    \/ call = None /\ \E d \in 0..MaxBucket : \E m \in 0..MaxBucket : \E p \in 0..MaxBucket : GetStatsCall(d, m, p)
    \/ call = None /\ \E kind \in Kinds : \E o \in Oracles : ExtractOneCall(kind, o)
    \/ call = None /\ \E n \in 0..MaxCallEmails : \E size \in 1..MaxGroupSize : \E model \in BOOLEAN :
         \E resps \in [1..NoGroups(n, size) -> GroupResps] :
            ExtractBatchCall(n, size, model, resps)
    \/ call = None /\ \E n \in 0..MaxCallEmails : \E o \in Oracles : ProcessBatchCall(n, o)
    \/ call = None /\ \E txs \in ListsOf(TxOpts, MaxTransactions) : AnalyzeSpendingCall(txs)
    \/ call = None /\ \E subs \in ListsOf(SubOpts, MaxSubscriptions) : AnalyzeSubscriptionsCall(subs)
    \/ call = None /\ \E data \in ListsOf(HealthItems, MaxHealthItems) : FinancialHealthCall(data)
    \/ call = None /\ \E data \in ListsOf(ReportItems, MaxReportItems) : GenerateInsightsCall(data)

SpecCalls == Init /\ [][NextCalls]_vars

(***************************************************************************)
(* Properties                                                              *)
(***************************************************************************)
Terminal == {"completed", "failed"}

BatchRaised(j) == proc[j].batch_raised
\* an exception of fetch, parse, classification or aggregation was caught
FatalCaught(j) == proc[j].caught # None /\ proc[j].caught[1].fatal
InFlight(j) == {k \in DOMAIN proc[j].tasks : InFlightTask(proc[j].tasks[k])}
ChunkIndex(k) == (k - 1) \div max_concurrent_batches
EmailIds(seq) == [i \in 1..Len(seq) |-> seq[i].id]
RecordIds(seq) == [i \in 1..Len(seq) |-> seq[i].email_id]

\* C1: a job one of whose batches raised, and in which fetch, parse, classify
\* and aggregate raised nothing, is never Failed, and when its task has ended
\* it is Completed.
C1_BatchFailureNotFatal ==
    \A j \in DOMAIN jobs :
        (BatchRaised(j) /\ ~FatalCaught(j)) =>
            /\ jobs[j].status # "failed"
            /\ (proc[j].pc = "done" => jobs[j].status = "completed")

StatusStep(s, t) ==
    \/ s = t
    \/ <<s, t>> \in {<<"starting", "running">>, <<"running", "completed">>,
                     <<"running", "failed">>}

\* C2: every step changes a job's status only along Starting -> Running ->
\* Completed or Starting -> Running -> Failed; a new job starts as Starting.
C2_StatusOrder ==
    [][/\ \A j \in DOMAIN jobs \cap DOMAIN jobs' : StatusStep(jobs[j].status, jobs'[j].status)
       /\ \A j \in DOMAIN jobs' \ DOMAIN jobs : jobs'[j].status = "starting"]_vars

\* C2 witness: one job went Starting -> Running -> Completed, another
\* Starting -> Running -> Failed.
C2_Witness ==
    \E j1, j2 \in DOMAIN jobs :
        /\ jobs[j1].status = "completed"
        /\ jobs[j2].status = "failed"
        /\ proc[j1].pc = "done" /\ proc[j2].pc = "done"

\* what a caller of get_job_status compares: status, results and error
StatusView(answer) ==
    IF answer = None THEN None
    ELSE Some([status |-> answer[1].status, results |-> answer[1].results,
               error |-> answer[1].error])

\* C3 (as claimed): once a job is Completed or Failed, get_job_status returns
\* the same status, results and error after every later step.
C3_TerminalForever ==
    [][\A j \in DOMAIN jobs :
          jobs[j].status \in Terminal =>
              StatusView(get_job_status(j))' = StatusView(get_job_status(j))]_vars

\* C3 (amended): once a job is Completed or Failed, get_job_status returns the
\* same status, results and error until cleanup_old_jobs removes the job; from
\* then on it returns absent.
C3_TerminalUntilRemoved ==
    [][/\ \A j \in DOMAIN jobs :
            jobs[j].status \in Terminal =>
                \/ StatusView(get_job_status(j))' = StatusView(get_job_status(j))
                \/ /\ get_job_status(j)' = None
                   /\ \E h \in MaxAges : CleanupOldJobs(h)
       /\ \A j \in issued \ DOMAIN jobs : get_job_status(j)' = None]_vars

\* C3 witness: a Completed job is still in the store with its results after
\* cleanup_old_jobs has removed another job and the clock has advanced.
C3_Witness ==
    \E j1, j2 \in issued :
        /\ j1 \in DOMAIN jobs /\ jobs[j1].status = "completed"
        /\ jobs[j1].results # None
        /\ j2 \notin DOMAIN jobs
        /\ now > 0

\* C4: a step that leaves a job Running never lowers its stored progress.
C4_MonotonicProgress ==
    [][\A j \in DOMAIN jobs \cap DOMAIN jobs' :
          (jobs[j].status = "running" /\ jobs'[j].status = "running") =>
              jobs'[j].progress >= jobs[j].progress]_vars

\* C4 witness: a Running job between two chunks, its progress strictly
\* between 60 and 90, after parse updates strictly between 20 and 50.
C4_Witness ==
    \E j \in DOMAIN jobs :
        /\ jobs[j].status = "running"
        /\ jobs[j].progress > 600 /\ jobs[j].progress < 900
        /\ Len(proc[j].emails) > 2 * ParseUpdateEvery

\* C5: the error field is set exactly when the status is Failed.
C5_ErrorIffFailed ==
    \A j \in DOMAIN jobs : (jobs[j].error # None) <=> (jobs[j].status = "failed")

\* C6: the results field is set exactly when the status is Completed.
C6_ResultsIffCompleted ==
    \A j \in DOMAIN jobs : (jobs[j].results # None) <=> (jobs[j].status = "completed")

\* C6 witness: a Completed job whose results carry extracted insights.
C6_Witness ==
    \E j \in DOMAIN jobs :
        /\ jobs[j].status = "completed"
        /\ jobs[j].results # None
        /\ Len(jobs[j].results[1].extracted_insights) > 0

\* C7: after an exception of fetch, parse, classification or aggregation the
\* job is Failed, its error is the exception's message, its progress is 0 and
\* its results are absent.
C7_FatalErrorRecorded ==
    \A j \in DOMAIN jobs :
        FatalCaught(j) =>
            /\ jobs[j].status = "failed"
            /\ jobs[j].error = Some(proc[j].caught[1].msg)
            /\ jobs[j].progress = 0
            /\ jobs[j].results = None

\* C8: at most max_concurrent_batches batch operations of a job are in flight.
C8_BoundedConcurrency ==
    \A j \in JobIds : Cardinality(InFlight(j)) <= max_concurrent_batches

\* C8 witness: three batches of a job with more than three batches are in
\* their extractor call at the same time.
C8_Witness ==
    \E j \in JobIds :
        /\ Len(proc[j].tasks) > max_concurrent_batches
        /\ Cardinality({k \in DOMAIN proc[j].tasks : proc[j].tasks[k].state = "thread"})
             = max_concurrent_batches

\* C9: a batch of a later chunk has been dispatched only if every batch of
\* every earlier chunk has finished.
C9_ChunkBarrier ==
    \A j \in JobIds : \A k1, k2 \in DOMAIN proc[j].tasks :
        (ChunkIndex(k1) < ChunkIndex(k2) /\ proc[j].tasks[k2].state # "new") =>
            Finished(proc[j].tasks[k1])

\* C9 witness: a batch of the second chunk is in flight after the batches of
\* the first chunk finished out of their submission order.
C9_Witness ==
    \E j \in JobIds : \E k \in DOMAIN proc[j].tasks :
        /\ ChunkIndex(k) = 1
        /\ InFlightTask(proc[j].tasks[k])
        /\ proc[j].overtaken

RelevantInOrder(parsed) ==
    SelectSeq(parsed, LAMBDA e : classify_email(e) = "definitely_financial")
        \o SelectSeq(parsed, LAMBDA e : classify_email(e) = "maybe_financial")

\* C10: in a Completed job none of whose batches failed, the extracted
\* insights are one record per relevant email, in the order definitely-
\* financial emails (input order) then maybe-financial emails (input order).
C10_InsightsInOrder ==
    \A j \in DOMAIN jobs :
        (jobs[j].status = "completed" /\ ~BatchRaised(j)) =>
            RecordIds(jobs[j].results[1].extracted_insights)
                = EmailIds(RelevantInOrder(proc[j].parsed_emails))

\* C10 witness: a Completed job with two chunks in which a batch finished
\* before an earlier batch of its chunk, with emails of both tiers.
C10_Witness ==
    \E j \in DOMAIN jobs :
        /\ jobs[j].status = "completed"
        /\ proc[j].overtaken
        /\ Len(proc[j].tasks) > max_concurrent_batches
        /\ Len(jobs[j].results[1].extracted_insights) = Len(proc[j].relevant_emails)
        /\ proc[j].stats[1].definitely_financial > 0
        /\ proc[j].stats[1].maybe_financial > 0

RECURSIVE ReturnedRecords(_, _)
\* the records of the batches that returned, in the order of submission
ReturnedRecords(tasks, k) ==
    IF k > Len(tasks) THEN <<>>
    ELSE (IF tasks[k].state = "returned" THEN tasks[k].result ELSE <<>>)
             \o ReturnedRecords(tasks, k + 1)

PcStep(a, b) ==
    \/ a = b
    \/ <<a, b>> \in {<<"none", "scheduled">>, <<"scheduled", "fetch">>, <<"fetch", "parse">>,
                     <<"parse", "classify">>, <<"classify", "extract">>,
                     <<"extract", "gather">>, <<"gather", "extract">>,
                     <<"extract", "aggregate">>, <<"aggregate", "done">>}
    \* an exception ends the task
    \/ (a \in {"fetch", "parse", "classify", "gather", "aggregate"} /\ b = "done")

\* everything the pipeline does before the Completed update has been done
PipelineDone(j) ==
    /\ proc[j].pc = "done"
    /\ Len(proc[j].parsed_emails) = Len(proc[j].emails)
    /\ proc[j].stats # None
    /\ proc[j].stats[1].total_emails = Len(proc[j].emails)
    /\ Len(proc[j].tasks) = NumBatches(proc[j].relevant_emails)
    /\ \A k \in DOMAIN proc[j].tasks : proc[j].tasks[k].state = "returned"
    /\ InFlight(j) = {}
    /\ jobs[j].results # None
    /\ jobs[j].results[1].analytics = generate_comprehensive_insights(proc[j].extracted_data)

\* C12: in every state a Completed job has its fetch, the parse of every
\* fetched email, classification, every batch of every chunk and aggregation
\* behind it, none of its batches is in flight; the stages are passed in the
\* order fetch, parse, classify, extract, aggregate, and Completed is written
\* by the step that ends aggregation.
C12_CompletedAfterPipeline ==
    /\ [](\A j \in DOMAIN jobs : jobs[j].status = "completed" => PipelineDone(j))
    /\ [][\A j \in DOMAIN jobs' :
             /\ PcStep(proc[j].pc, proc'[j].pc)
             /\ (/\ jobs'[j].status = "completed"
                 /\ (j \in DOMAIN jobs => jobs[j].status # "completed"))
                    => proc[j].pc = "aggregate"]_vars

\* C12 witness: a Completed job that fetched the largest mailbox, parsed all
\* of it and extracted two chunks of batches.
C12_Witness ==
    \E j \in DOMAIN jobs :
        /\ jobs[j].status = "completed"
        /\ Len(proc[j].parsed_emails) = MaxEmails
        /\ Len(proc[j].tasks) > max_concurrent_batches
        /\ \A k \in DOMAIN proc[j].tasks : proc[j].tasks[k].state = "returned"

\* C13: a step that puts a new job into the store (start_processing_job
\* returning its id) leaves it with status Starting, progress 0, no results,
\* no error, and with its background task only scheduled: nothing fetched,
\* parsed, classified or extracted; and as long as a job is Starting its task
\* has not run.
C13_SubmissionDoesNotWait ==
    /\ [][\A j \in DOMAIN jobs' \ DOMAIN jobs :
             /\ jobs'[j].status = "starting"
             /\ jobs'[j].progress = 0
             /\ jobs'[j].results = None
             /\ jobs'[j].error = None
             /\ proc'[j] = [NoProc EXCEPT !.pc = "scheduled"]
             /\ loop' = 0]_vars
    /\ [](\A j \in DOMAIN jobs : jobs[j].status = "starting" => proc[j].pc = "scheduled")

\* C13 witness: a job just submitted is Starting and untouched while an
\* earlier job has a batch in its extractor call.
C13_Witness ==
    \E j1, j2 \in DOMAIN jobs :
        /\ jobs[j2].status = "starting"
        /\ proc[j2] = [NoProc EXCEPT !.pc = "scheduled"]
        /\ proc[j1].pc = "gather"
        /\ \E k \in DOMAIN proc[j1].tasks : proc[j1].tasks[k].state = "thread"

JobTerminal(j) == IF j \in DOMAIN jobs THEN jobs[j].status \in Terminal ELSE FALSE

\* C14: under fair scheduling of the job's task and of its batch workers,
\* with every fetch and every extractor call returning or raising, a job in
\* the store eventually is Completed or Failed.
C14_EveryJobTerminates ==
    \A j \in SoloIds : (j \in DOMAIN jobs) ~> JobTerminal(j)

\* C14 witness: a job that suspended on two concurrent batches, one of which
\* slept before its extractor call, has ended.
C14_Witness ==
    \E j \in DOMAIN jobs :
        /\ jobs[j].status \in Terminal
        /\ proc[j].pc = "done"
        /\ Len(proc[j].tasks) >= 2
        /\ \A k \in DOMAIN proc[j].tasks : Finished(proc[j].tasks[k])

\* the job's coroutine is inside gmail_service.fetch_emails_last_6_months()
InFetch(j) == proc[j].pc = "fetch"
\* a batch of the job is inside extract_insights_batch
InExtractorCall(j) == \E k \in DOMAIN proc[j].tasks : proc[j].tasks[k].state = "thread"

\* C15: while a job is in its fetch (Running, progress 10) or has a batch in
\* an extractor call, the event loop is free: status queries, streams and
\* other jobs' tasks, all of which run on the loop, can take steps and read
\* the job's record.
C15_CallsSuspend ==
    \A j \in DOMAIN jobs : (InFetch(j) \/ InExtractorCall(j)) => loop = 0

PayloadKinds == {"results", "error", "notfound"}
Finals(out) == {i \in 1..Len(out) : out[i].kind \in PayloadKinds}
Snapshots(out) == {i \in 1..Len(out) : out[i].kind = "snapshot"}
StreamEnded(st) == st.pc \in {"final", "closed"}
\* the dict the generator's variable job refers to
LiveJob(st) == IF st.held # None THEN st.held[1] ELSE jobs[st.job_id]

\* the last item is the job's results for a Completed job, its error for a
\* Failed one
PayloadOfJob(st) ==
    LET last == st.out[Len(st.out)]
    IN  /\ last.kind \in {"results", "error"}
        /\ st.job_id \in DOMAIN jobs =>
              /\ last.kind = "results" =>
                    (jobs[st.job_id].status = "completed" /\ last.payload = jobs[st.job_id].results)
              /\ last.kind = "error" =>
                    (jobs[st.job_id].status = "failed" /\ last.payload = jobs[st.job_id].error)

\* at the step that yields the payload it is taken from the job as it is then
PayloadStep(s) ==
    LET st == streams[s]
        last == streams'[s].out[Len(streams'[s].out)]
    IN  (Len(streams'[s].out) > Len(st.out) /\ last.kind \in {"results", "error"}) =>
            /\ LiveJob(st).status = (IF last.kind = "results" THEN "completed" ELSE "failed")
            /\ last.payload = (IF last.kind = "results" THEN LiveJob(st).results
                               ELSE LiveJob(st).error)

\* C16 (as claimed): a stream requested for a job that was in the store has
\* yielded no final payload while it runs and, once it has ended, exactly one,
\* as its last item: the job's results (Completed) or the job's error (Failed).
C16_EndsWithResultsOrError ==
    /\ [](\A s \in DOMAIN streams :
            streams[s].at_open # "absent" =>
                IF StreamEnded(streams[s])
                THEN /\ Finals(streams[s].out) = {Len(streams[s].out)}
                     /\ PayloadOfJob(streams[s])
                ELSE Finals(streams[s].out) = {})
    /\ [][\A s \in DOMAIN streams : PayloadStep(s)]_vars

\* C16 (amended): as above, except that the one final item is the "Job not
\* found" item when cleanup_old_jobs removed the job before a poll of the
\* stream found it Completed or Failed.
C16_EndsWithOnePayload ==
    /\ [](\A s \in DOMAIN streams :
            streams[s].at_open # "absent" =>
                IF StreamEnded(streams[s])
                THEN /\ Finals(streams[s].out) = {Len(streams[s].out)}
                     /\ \/ PayloadOfJob(streams[s])
                        \/ /\ streams[s].out[Len(streams[s].out)] = NotFoundItem
                           /\ streams[s].job_id \in issued \ DOMAIN jobs
                ELSE Finals(streams[s].out) = {})
    /\ [][\A s \in DOMAIN streams : PayloadStep(s)]_vars

\* C16 witness: a stream requested while its job was not yet terminal has
\* ended, after at least two snapshots, with the job's results.
C16_Witness ==
    \E s \in DOMAIN streams :
        /\ streams[s].at_open \in {"starting", "running"}
        /\ streams[s].pc = "closed"
        /\ Cardinality(Snapshots(streams[s].out)) >= 2
        /\ streams[s].out[Len(streams[s].out)].kind = "results"

\* progress of the last snapshot a stream yielded; before the first one the
\* value last_progress starts with, which no job has
LastSnapshotProgress(out) ==
    IF Snapshots(out) = {} THEN -1
    ELSE out[CHOOSE i \in Snapshots(out) : \A i2 \in Snapshots(out) : i2 <= i].progress

\* the poll a stream is about to make yields a snapshot
PollEmitsSnapshot(st) ==
    LET after == PollOnce(st, get_job_status(st.job_id))
    IN  /\ Len(after.out) = Len(st.out) + 1
        /\ after.out[Len(after.out)].kind = "snapshot"

\* C17: a poll that finds the job yields a snapshot exactly when the job's
\* progress differs from the progress of the last snapshot the stream yielded
\* (the first poll always does), and no two consecutive snapshots of a stream
\* carry the same progress.
C17_SnapshotIffProgressChanged ==
    \A s \in DOMAIN streams :
        /\ (streams[s].pc = "poll" /\ streams[s].job_id \in DOMAIN jobs) =>
              (PollEmitsSnapshot(streams[s])
                  <=> jobs[streams[s].job_id].progress # LastSnapshotProgress(streams[s].out))
        /\ \A i \in Snapshots(streams[s].out) :
              (i + 1) \in Snapshots(streams[s].out) =>
                  streams[s].out[i].progress # streams[s].out[i + 1].progress

StreamOnEndedJob(s) ==
    IF s \in DOMAIN streams
    THEN /\ streams[s].job_id \in issued
         /\ (streams[s].job_id \in DOMAIN jobs => jobs[streams[s].job_id].status \in Terminal)
    ELSE FALSE

StreamClosed(s) == IF s \in DOMAIN streams THEN streams[s].pc = "closed" ELSE FALSE

\* C18: under fair scheduling of the stream's poll loop and of the event
\* loop's other callbacks, a stream on a job that is Completed or Failed (or
\* was, and has been removed) eventually terminates, whether it was requested
\* before or after the job ended.
C18_StreamTerminates ==
    \A s \in SoloStreamIds : StreamOnEndedJob(s) ~> StreamClosed(s)

\* C18 witness: a stream requested after its job had ended has terminated
\* with the job's final payload.
C18_Witness ==
    \E s \in DOMAIN streams :
        /\ streams[s].at_open \in Terminal
        /\ streams[s].pc = "closed"
        /\ streams[s].out[Len(streams[s].out)].kind \in {"results", "error"}

\* C19: for an id that is not in the store get_job_status answers absent; a
\* stream requested for such an id yields the "Job not found" item, nothing
\* else, and ends; its steps leave the store and every job's task untouched.
C19_UnknownJob ==
    /\ [](\A j \in JobIds \ DOMAIN jobs : get_job_status(j) = None)
    /\ [](\A s \in DOMAIN streams :
            streams[s].at_open = "absent" =>
                \/ streams[s].pc = "poll" /\ streams[s].out = <<>>
                \/ StreamEnded(streams[s]) /\ streams[s].out = <<NotFoundItem>>)
    /\ [][\A s \in DOMAIN streams' :
             (streams'[s].at_open = "absent" /\ (s \in DOMAIN streams => streams'[s] # streams[s]))
                 => (jobs' = jobs /\ proc' = proc /\ issued' = issued)]_vars

\* C19 witness: a stream on an id never issued and a stream on the id of a
\* removed job have both ended, while get_job_status answers absent for both.
C19_Witness ==
    \E s1, s2 \in DOMAIN streams :
        /\ streams[s1].job_id \in UnknownIds
        /\ streams[s2].job_id \in issued
        /\ streams[s1].at_open = "absent" /\ streams[s2].at_open = "absent"
        /\ streams[s1].pc = "closed" /\ streams[s2].pc = "closed"
        /\ get_job_status(streams[s1].job_id) = None
        /\ get_job_status(streams[s2].job_id) = None

\* the fields an update without results and error must leave alone
KeptFields(job) ==
    [results |-> job.results, error |-> job.error, total |-> job.total,
     start_time |-> job.start_time]

\* C20: in every reachable store, for every id, an update returns; for an id
\* that is not in the store it changes nothing; for a stored job it refreshes
\* updated_at and, when it supplies no results and no error, leaves results,
\* error, total and start_time as they were; the warning update, which
\* supplies no progress either, also leaves the progress as it was.
C20_UpdateMerges ==
    \A j \in JobIds :
        LET upd == UpdateOutcome(jobs, j, "running", Some(Rat(50, 1)), "Classifying",
                                 None, None, now)
            warn == UpdateOutcome(jobs, j, "running", None, "Warning", None, None, now)
        IN  /\ ~upd.raised
            /\ ~warn.raised
            /\ j \notin DOMAIN jobs => (upd.value = jobs /\ warn.value = jobs)
            /\ j \in DOMAIN jobs =>
                  /\ upd.value[j].updated_at = Some(now)
                  /\ KeptFields(upd.value[j]) = KeptFields(jobs[j])
                  /\ \A other \in DOMAIN jobs \ {j} : upd.value[other] = jobs[other]
                  /\ warn.value[j].updated_at = Some(now)
                  /\ KeptFields(warn.value[j]) = KeptFields(jobs[j])
                  /\ warn.value[j].progress = jobs[j].progress

\* the jobs cleanup_old_jobs(h) has to remove: Completed or Failed, and started
\* before the cutoff
Reapable(h) ==
    {j \in DOMAIN jobs : jobs[j].status \in Terminal /\ jobs[j].start_time < now - h}

\* C21: a step of cleanup_old_jobs(h) removes exactly the jobs that are
\* Completed or Failed and started before the cutoff, and leaves every other
\* record as it was; no step at all removes a Starting or Running job or a
\* terminal job that is not older than the smallest cutoff.
C21_CleanupRemovesOldTerminal ==
    [][/\ \A h \in MaxAges :
            CleanupOldJobs(h) =>
                /\ DOMAIN jobs \ DOMAIN jobs' = Reapable(h)
                /\ \A j \in DOMAIN jobs' : j \in DOMAIN jobs /\ jobs'[j] = jobs[j]
       /\ \A j \in DOMAIN jobs \ DOMAIN jobs' :
            /\ jobs[j].status \in Terminal
            /\ \E h \in MaxAges : jobs[j].start_time < now - h]_vars

\* C21 witness: cleanup_old_jobs has removed every old terminal job while a
\* job older than the cutoff that is still Running has stayed.
C21_Witness ==
    \E j1, j2 \in issued :
        /\ j1 \notin DOMAIN jobs
        /\ j2 \in DOMAIN jobs
        /\ jobs[j2].status = "running"
        /\ jobs[j2].start_time < now
        /\ Reapable(0) = {}

\* a record as whole updates leave it
FullyWritten(job) ==
    /\ job.status = "starting" =>
          (job.progress = 0 /\ job.results = None /\ job.error = None /\ job.updated_at = None)
    /\ job.status = "running" =>
          (job.results = None /\ job.error = None /\ job.updated_at # None)
    /\ job.status = "completed" =>
          (job.progress = 1000 /\ job.results # None /\ job.error = None)
    /\ job.status = "failed" =>
          (job.progress = 0 /\ job.results = None /\ job.error # None)

OwnTaskWrite(j) ==
    \/ TaskStart(j)
    \/ FetchEmails(j, SharedMailboxes)
    \/ ParseEmail(j)
    \/ ClassifyStart(j)
    \/ Classify(j)
    \/ JoinChunk(j)
    \/ AggregateStart(j)
    \/ Aggregate(j)

\* C23: a step that changes the record of a job in the store is a step of
\* that job's own background task, and it changes no other job's record;
\* batch operations, cleanup and the tasks of other jobs change no record.
C23_OnlyOwnTaskWrites ==
    [][\A j \in DOMAIN jobs \cap DOMAIN jobs' :
          jobs'[j] # jobs[j] =>
              /\ OwnTaskWrite(j)
              /\ \A other \in (DOMAIN jobs \cap DOMAIN jobs') \ {j} :
                    jobs'[other] = jobs[other]]_vars

\* C23 witness: two jobs are Running at different points of their pipelines,
\* one of them with a batch that has returned while its chunk is still
\* awaited.
C23_Witness ==
    \E j1, j2 \in DOMAIN jobs :
        /\ j1 # j2
        /\ jobs[j1].status = "running" /\ jobs[j2].status = "running"
        /\ jobs[j1].progress # jobs[j2].progress
        /\ proc[j1].pc = "gather"
        /\ \E k \in DOMAIN proc[j1].tasks : proc[j1].tasks[k].state = "returned"

\* the value the claim gives for the chunk that starts at batch index c, of
\* nb batches over n relevant emails, in tenths of a percent
ClaimedChunkProgress(c, nb, n) ==
    RoundHalfEven(10 * (60 * n + 30 * Min(Min(c + 3, nb) * 5, n)), n)

\* C24: while a chunk is awaited no step changes the job's record (no update
\* per batch); the step that ends the wait for a chunk leaves the job Running
\* with progress 60 + 30 * min(min(c + 3, batches) * 5, n) / n rounded to one
\* decimal, which is 90 after the last chunk.
C24_OneUpdatePerChunk ==
    [][\A j \in DOMAIN jobs \cap DOMAIN jobs' :
          /\ (proc[j].pc = "gather" /\ proc'[j].pc = "gather") => jobs'[j] = jobs[j]
          /\ (proc[j].pc = "gather" /\ proc'[j].pc # "gather") =>
                /\ jobs'[j].status = "running"
                /\ jobs'[j].progress =
                      ClaimedChunkProgress(proc[j].chunk_start, Len(proc[j].tasks),
                                           Len(proc[j].relevant_emails))
                /\ (proc[j].chunk_start + 3 >= Len(proc[j].tasks)) => jobs'[j].progress = 900]_vars

\* what a step of job j that is not a failure writes as progress, given the
\* bounds lo <= p <= hi (hi excluded when open) for a parse update
ProgressWritten(j, parse_hi) ==
    LET a == proc[j].pc
        b == proc'[j].pc
        p == jobs'[j].progress
    IN  /\ (a = "scheduled" /\ b = "fetch") => p = 100
        /\ (a = "fetch" /\ b = "parse") => p = 200
        /\ (a = "parse" /\ b = "parse" /\ jobs'[j] # jobs[j]) => (200 <= p /\ p <= parse_hi)
        /\ (a = "parse" /\ b = "classify") => p = 500
        /\ (a = "classify" /\ b = "extract") => p = 600
        /\ (a = "gather" /\ b = "extract") => (600 <= p /\ p <= 900)
        /\ (a = "extract" /\ b = "aggregate") => p = 900
        /\ (a = "aggregate" /\ b = "done") => (p = 1000 /\ jobs'[j].status = "completed")
        /\ (a = b /\ a # "parse") => jobs'[j] = jobs[j]

ProgressInRange ==
    \A j \in DOMAIN jobs :
        /\ 0 <= jobs[j].progress /\ jobs[j].progress <= 1000
        /\ jobs[j].progress = 1000 => jobs[j].status = "completed"

\* C25 (as claimed): every step of a job that does not fail it writes, by its
\* place in the pipeline, 10 (fetch start), 20 (fetched), a value in [20, 50)
\* (parsing), 50 (classification), 60 (extraction start), a value in [60, 90]
\* (chunk), 90 (aggregation), 100 (completion); the stored progress is always
\* within [0, 100] and is 100 only for a Completed job.
C25_ProgressSchedule ==
    /\ []ProgressInRange
    /\ [][\A j \in DOMAIN jobs \cap DOMAIN jobs' :
             jobs'[j].status # "failed" => ProgressWritten(j, 499)]_vars

\* C25 (amended): as above with the parsing values in [20, 50]: the stored
\* value is rounded to one decimal and reaches 50.0 before classification.
C25_ProgressScheduleRounded ==
    /\ []ProgressInRange
    /\ [][\A j \in DOMAIN jobs \cap DOMAIN jobs' :
             jobs'[j].status # "failed" => ProgressWritten(j, 500)]_vars

\* C25 witness: a job whose last parse update stored 50.0 has run to
\* Completed with progress 100.
C25_Witness ==
    \E j \in DOMAIN jobs :
        /\ jobs[j].status = "completed"
        /\ jobs[j].progress = 1000
        /\ Len(proc[j].emails) > 0
        /\ Round1(ParseProgress(ParseUpdateEvery * ((Len(proc[j].emails) - 1) \div ParseUpdateEvery),
                                Len(proc[j].emails))) = 500

CallOf(fn) == call # None /\ call[1].fn = fn

Buckets == {"definitely_financial", "maybe_financial", "probably_not"}

\* the places of a partition that hold the given email
PlacesOf(partition, email) ==
    {<<b, k>> \in Buckets \X (1..MaxCallEmails + 1) :
        k <= Len(partition[b]) /\ partition[b][k] = email}

\* C26: classify_emails_batch puts every email of its input into exactly one
\* bucket, the one classify_email gives for that email alone; the bucket sizes
\* sum to the input length and every bucket keeps the input order.
C26_BatchIsPartition ==
    CallOf("classify_emails_batch") =>
        LET emails == call[1].emails
            r == call[1].result
        IN  /\ \A i \in 1..Len(emails) :
                  /\ Cardinality(PlacesOf(r, emails[i])) = 1
                  /\ \A pl \in PlacesOf(r, emails[i]) : pl[1] = classify_email(emails[i])
            /\ Len(r.definitely_financial) + Len(r.maybe_financial) + Len(r.probably_not)
                  = Len(emails)
            /\ \A b \in Buckets : \A k1, k2 \in 1..Len(r[b]) :
                  k1 < k2 => r[b][k1].id < r[b][k2].id

\* C26 witness: a list of the greatest length with emails for all three
\* buckets, one of them matching an exclude and a high-confidence rule.
C26_Witness ==
    /\ CallOf("classify_emails_batch")
    /\ Len(call[1].emails) = MaxCallEmails
    /\ \A b \in Buckets : Len(call[1].result[b]) > 0
    /\ \E i \in 1..Len(call[1].emails) :
          ExcludeMatch(call[1].emails[i].text) /\ DefinitelyMatch(call[1].emails[i].text)

\* C27: classify_email answers ProbablyNot whenever an exclude rule matches,
\* else DefinitelyFinancial if a high-confidence rule matches, else
\* MaybeFinancial if a medium-confidence rule matches, else ProbablyNot.
C27_ExcludeWins ==
    CallOf("classify_email") =>
        LET text == call[1].email.text
            r == call[1].result
        IN  /\ ExcludeMatch(text) => r = "probably_not"
            /\ (~ExcludeMatch(text) /\ DefinitelyMatch(text)) => r = "definitely_financial"
            /\ (~ExcludeMatch(text) /\ ~DefinitelyMatch(text) /\ MaybeMatch(text))
                  => r = "maybe_financial"
            /\ (~ExcludeMatch(text) /\ ~DefinitelyMatch(text) /\ ~MaybeMatch(text))
                  => r = "probably_not"

\* C27 witness: an email that matches a rule of each of the three groups has
\* been classified ProbablyNot.
C27_Witness ==
    /\ CallOf("classify_email")
    /\ ExcludeMatch(call[1].email.text)
    /\ DefinitelyMatch(call[1].email.text)
    /\ MaybeMatch(call[1].email.text)
    /\ call[1].result = "probably_not"

\* the counts of get_classification_stats
StatsCounts(partition, r) ==
    /\ r.definitely_financial = Len(partition.definitely_financial)
    /\ r.maybe_financial = Len(partition.maybe_financial)
    /\ r.probably_not = Len(partition.probably_not)
    /\ r.total_emails = r.definitely_financial + r.maybe_financial + r.probably_not
    /\ r.will_process_with_ai = r.definitely_financial + r.maybe_financial
    /\ r.will_process_with_ai + r.probably_not = r.total_emails
    /\ r.total_emails = 0 => r.ai_processing_reduction = 0

\* C28 (as claimed): the counts are right and ai_processing_reduction is
\* probably_not / total * 100 (here in tenths of a percent), 0 for total 0.
C28_StatsExact ==
    CallOf("get_classification_stats") =>
        LET r == call[1].result
        IN  /\ StatsCounts(call[1].partition, r)
            /\ r.total_emails > 0 =>
                  r.ai_processing_reduction * r.total_emails = 1000 * r.probably_not

\* C28 (amended): the counts are right and ai_processing_reduction is
\* probably_not / total * 100 rounded to one decimal: a multiple of 0.1 no
\* further than 0.05 from the quotient; 0 for total 0.
C28_StatsRounded ==
    CallOf("get_classification_stats") =>
        LET r == call[1].result
            diff == r.ai_processing_reduction * r.total_emails - 1000 * r.probably_not
        IN  /\ StatsCounts(call[1].partition, r)
            /\ r.total_emails > 0 =>
                  (2 * diff <= r.total_emails /\ -2 * diff <= r.total_emails)

\* C28 witness: statistics of a partition with two of three emails in
\* probably_not: 66.666... is reported as 66.7.
C28_Witness ==
    /\ CallOf("get_classification_stats")
    /\ call[1].result.total_emails = 3
    /\ call[1].result.probably_not = 2
    /\ call[1].result.ai_processing_reduction = 667

\* C29: extract_insights_batch returns, and its result has one record per
\* input email, in input order, the i-th tagged with the i-th email's id.
C29_OneRecordPerEmail ==
    CallOf("extract_insights_batch") =>
        /\ ~call[1].result.raised
        /\ RecordIds(call[1].result.value) = EmailIds(call[1].emails)

\* the model is disabled, its call raises, or its answer is not a JSON object
FailedOutcome(o) == ~o.model \/ o.single \in {"raise", "notjson", "nondict"}

\* C30: extract_insights_batch never raises, and with the model disabled all
\* its records are heuristic ones; extract_financial_insights returns the
\* heuristic fallback record whenever the model is disabled, its call raises
\* or its answer is not a JSON object.
C30_NeverRaises ==
    /\ CallOf("extract_insights_batch") =>
          /\ ~call[1].result.raised
          /\ ~call[1].model =>
                \A i \in 1..Len(call[1].result.value) :
                    call[1].result.value[i].source = "heuristic"
    /\ CallOf("extract_financial_insights") =>
          (FailedOutcome(call[1].oracle) =>
              call[1].result = _fallback_extraction(call[1].email))

\* C31: when the combined answer for a group of N emails is a JSON array of
\* fewer than N objects, the call returns N records in input order: the
\* emails at the covered positions have their AI record and the others, and
\* only those, a heuristic record.
C31_ShortArrayFilled ==
    (/\ CallOf("_process_batch_with_ai")
     /\ call[1].oracle.model
     /\ call[1].oracle.batch \in {"short", "empty"}
     /\ Len(call[1].emails) > 0) =>
        LET emails == call[1].emails
            r == call[1].result
            covered == IF call[1].oracle.batch = "short" THEN Len(emails) - 1 ELSE 0
        IN  /\ ~r.raised
            /\ Len(r.value) = Len(emails)
            /\ \A i \in 1..Len(emails) :
                  /\ r.value[i].email_id = emails[i].id
                  /\ i <= covered => r.value[i].source = "ai"
                  /\ i > covered =>
                        /\ r.value[i].source = "heuristic"
                        /\ r.value[i].is_relevant = CardKeyword(emails[i].text)

\* C31 witness: a group of the greatest size answered by an array that is one
\* object short: the last record is a heuristic one, the others AI records.
C31_Witness ==
    /\ CallOf("_process_batch_with_ai")
    /\ call[1].oracle.model
    /\ call[1].oracle.batch = "short"
    /\ Len(call[1].emails) = MaxCallEmails
    /\ ~call[1].result.raised
    /\ call[1].result.value[MaxCallEmails].source = "heuristic"
    /\ call[1].result.value[MaxCallEmails - 1].source = "ai"

ReportSections ==
    {"spending_analysis", "income_analysis", "subscription_analysis", "travel_analysis",
     "bills_analysis", "investment_analysis", "financial_health", "summary"}

\* C32: the report for the empty list has all eight sections, every section
\* with the keys it has for a record that holds every section, and with
\* total_spending = 0 and category_breakdown = {}.
C32_EmptyReportHasAllKeys ==
    (CallOf("generate_comprehensive_insights") /\ call[1].data = <<>>) =>
        LET r == call[1].result
            full == generate_comprehensive_insights(<<FullItem>>)
        IN  /\ DOMAIN r = ReportSections
            /\ \A sec \in ReportSections : DOMAIN r[sec] = DOMAIN full[sec]
            /\ r.spending_analysis.total_spending = 0
            /\ r.spending_analysis.category_breakdown = EmptyDict

\* the value of one section computed alone, its zero-value default if that fails
SectionAlone(sec, data) ==
    LET relevant == SelectSeq(data, LAMBDA d : Get(d, "is_relevant", FALSE))
        r == IF sec = "subscription_analysis" THEN _analyze_subscriptions(relevant)
             ELSE IF sec = "travel_analysis" THEN _analyze_travel(relevant)
             ELSE IF sec = "bills_analysis" THEN _analyze_bills(relevant)
             ELSE IF sec = "investment_analysis" THEN _analyze_investments(relevant)
             ELSE IF sec = "financial_health" THEN _calculate_financial_health(relevant)
             ELSE IF sec = "spending_analysis" THEN Returned(_analyze_spending(relevant))
             ELSE IF sec = "income_analysis" THEN Returned(_analyze_income(relevant))
             ELSE Returned(_generate_summary(relevant))
    IN  IF r.raised THEN DefaultInsights(data)[sec] ELSE r.value

\* C33: whatever section fails, the report has eight sections and every
\* section has the value it has when computed alone: its zero-value default
\* if its own computation failed, its normal value otherwise.
C33_SectionsFailAlone ==
    CallOf("generate_comprehensive_insights") =>
        /\ DOMAIN call[1].result = ReportSections
        /\ \A sec \in ReportSections :
              call[1].result[sec] = SectionAlone(sec, call[1].data)

\* the expenses of a list of records: type expense and an amount that is not
\* null and not 0
ExpensesIn(data) ==
    SelectSeq([i \in 1..Len(data) |-> data[i].transaction[1]],
              LAMBDA t : t.transaction_type = Some("expense") /\ t.amount \notin {None, Some(0)})

\* C34: total_spending is the sum of all expense amounts, monthly_trend has
\* exactly the months of the expenses with a parseable date, each with the sum
\* of its expenses, and average_monthly_spending times the number of months
\* in monthly_trend is total_spending (the average is 0 without a month).
C34_AverageOfTotal ==
    CallOf("_analyze_spending") =>
        LET expenses == ExpensesIn(call[1].data)
            r == call[1].result
            parseable == {i \in 1..Len(expenses) :
                             /\ "date" \in DOMAIN expenses[i]
                             /\ expenses[i].date \in {"2025-01-15", "2025-01-31", "2025-02-03"}}
            month(i) == IF expenses[i].date = "2025-02-03" THEN "2025-02" ELSE "2025-01"
            months == {month(i) : i \in parseable}
        IN  /\ r.total_spending =
                  100 * SumSeq([i \in 1..Len(expenses) |-> expenses[i].amount[1]])
            /\ DOMAIN r.monthly_trend = months
            /\ \A m \in months :
                  r.monthly_trend[m] =
                      100 * SumSeq([i \in 1..Len(expenses) |->
                                      IF i \in parseable /\ month(i) = m
                                      THEN expenses[i].amount[1] ELSE 0])
            /\ IF months = {} THEN r.average_monthly_spending = 0
               ELSE r.average_monthly_spending * Cardinality(months) = r.total_spending

\* the monthly cost of a list of subscription records, in 1/1200 of a unit
CostIn1200ths(data) ==
    SumSeq([i \in 1..Len(data) |->
              LET sub == data[i].subscription[1]
                  cycle == IF "billing_cycle" \in DOMAIN sub THEN sub.billing_cycle
                           ELSE Some("monthly")
              IN  IF cycle = Some("yearly") THEN 100 * sub.amount[1]
                  ELSE IF cycle = Some("monthly") THEN 1200 * sub.amount[1]
                  ELSE IF cycle = Some("weekly") THEN 5196 * sub.amount[1]
                  ELSE 0])

\* the subscriptions are there and all their amounts are numbers
NumericSubscriptions(data) ==
    /\ Len(data) > 0
    /\ \A i \in 1..Len(data) : data[i].subscription[1].amount # None

\* C35 (as claimed): monthly_recurring_cost is the sum of amount/12, amount
\* and amount*4.33 by cycle, and total_annual_cost is 12 times it.
C35_MonthlyCostExact ==
    (CallOf("_analyze_subscriptions") /\ NumericSubscriptions(call[1].data)) =>
        /\ ~call[1].result.raised
        /\ 12 * call[1].result.value.monthly_recurring_cost = CostIn1200ths(call[1].data)
        /\ call[1].result.value.total_annual_cost =
              12 * call[1].result.value.monthly_recurring_cost

\* C35 (amended): monthly_recurring_cost is that sum rounded to two decimals
\* (no further than 0.005 from it) and total_annual_cost is 12 times the
\* sum itself, rounded to two decimals.
C35_MonthlyCostRounded ==
    (CallOf("_analyze_subscriptions") /\ NumericSubscriptions(call[1].data)) =>
        LET diff == 12 * call[1].result.value.monthly_recurring_cost
                        - CostIn1200ths(call[1].data)
        IN  /\ ~call[1].result.raised
            /\ 2 * diff <= 12 /\ -2 * diff <= 12
            /\ call[1].result.value.total_annual_cost = CostIn1200ths(call[1].data)

\* C35 witness: 120 yearly, 50 weekly and 100 yearly: 10 + 216.5 + 8.33...
\* is reported as 234.83, the annual cost as 2818.
C35_Witness ==
    /\ CallOf("_analyze_subscriptions")
    /\ Len(call[1].data) = 3
    /\ call[1].data[1].subscription = Some(Sub(Some(120), Some("yearly")))
    /\ call[1].data[2].subscription = Some(Sub(Some(50), Some("weekly")))
    /\ call[1].data[3].subscription = Some(Sub(Some(100), Some("yearly")))
    /\ call[1].result = Returned([active_subscriptions |-> 3, monthly_recurring_cost |-> 23483,
                                  services |-> call[1].result.value.services,
                                  total_annual_cost |-> 281800])

\* C36: financial_health_score is 50 + s + r clamped to [0, 100]; s is 20
\* for a savings rate above 20, 10 above 10, -20 below 0, else 0; r is 10 for
\* a subscription-to-spending ratio below 10, -10 above 25, else 0; a rate is
\* 0 when its denominator is 0.
C36_HealthScore ==
    (CallOf("_calculate_financial_health") /\ ~call[1].result.raised) =>
        LET income == _analyze_income(call[1].data).average_monthly_income
            spending == _analyze_spending(call[1].data).average_monthly_spending
            subs == _analyze_subscriptions(call[1].data).value.monthly_recurring_cost
            \* rate > bound, for the rate 100 * num / den (0 when den = 0)
            above(num, den, bound) == IF den = 0 THEN 0 > bound ELSE 100 * num > bound * den
            below(num, den, bound) == IF den = 0 THEN 0 < bound ELSE 100 * num < bound * den
            s == IF above(income - spending, income, 20) THEN 20
                 ELSE IF above(income - spending, income, 10) THEN 10
                 ELSE IF below(income - spending, income, 0) THEN -20
                 ELSE 0
            r == IF below(subs, spending, 10) THEN 10
                 ELSE IF above(subs, spending, 25) THEN -10
                 ELSE 0
            score == call[1].result.value.financial_health_score
        IN  /\ score >= 0 /\ score <= 100
            /\ score = IF 50 + s + r < 0 THEN 0 ELSE IF 50 + s + r > 100 THEN 100 ELSE 50 + s + r

\* C36 witness: income 100, spending 80 and subscriptions 50 a month: the
\* savings rate is exactly 20 and the ratio 62.5, the score 50 + 10 - 10.
C36_Witness ==
    /\ CallOf("_calculate_financial_health")
    /\ ~call[1].result.raised
    /\ call[1].result.value.savings_rate = 200
    /\ call[1].result.value.subscription_to_spending_ratio = 625
    /\ call[1].result.value.financial_health_score = 50

\* C37: whenever a job has fetched, the credentials of the shared mail
\* service were, at its fetch, those set by the request that submitted it.
C37_FetchWithOwnCredentials ==
    \A j \in JobIds :
        proc[j].fetched_with # None => proc[j].fetched_with = Some(AccessToken(j))

\* the task of job j runs on an empty fetch or on a classification without
\* relevant email
EmptyRun(j) ==
    \/ proc[j].pc \in {"parse", "classify"} /\ proc[j].emails = <<>>
    \/ /\ proc[j].pc \in {"extract", "gather", "aggregate"}
       /\ proc[j].stats # None
       /\ proc[j].relevant_emails = <<>>

\* C38: a job whose fetch returned no emails, or whose classification found
\* no relevant email, never dispatches a chunk and never fails on its own
\* arithmetic: a step either leaves it Running, or fails it with an
\* exception raised by a collaborator, or completes it with progress 100 and
\* no extracted insights.
C38_EmptyRunCompletes ==
    [][\A j \in JobIds :
          (EmptyRun(j) /\ j \in DOMAIN jobs /\ j \in DOMAIN jobs') =>
              /\ proc'[j].pc # "gather"
              /\ proc'[j].tasks = <<>>
              /\ jobs'[j].status \in {"running", "completed", "failed"}
              /\ jobs'[j].status = "failed" =>
                    (proc'[j].caught # None /\ proc'[j].caught[1].fatal)
              /\ jobs'[j].status = "completed" =>
                    /\ jobs'[j].progress = 1000
                    /\ jobs'[j].results # None
                    /\ jobs'[j].results[1].extracted_insights = <<>>
              /\ proc'[j].pc = "done" => jobs'[j].status \in {"completed", "failed"}]_vars

\* C38 witness: a job that fetched an empty mailbox is Completed with
\* progress 100 and no extracted insights.
C38_Witness ==
    \E j \in DOMAIN jobs :
        /\ jobs[j].status = "completed"
        /\ jobs[j].progress = 1000
        /\ proc[j].emails = <<>>
        /\ proc[j].stats # None
        /\ proc[j].stats[1].total_emails = 0
        /\ jobs[j].results[1].extracted_insights = <<>>
        /\ jobs[j].results[1].metadata.total_emails_fetched = 0

\* C39: every results or error payload in a stream's output comes after a
\* snapshot of that stream whose status is the terminal status of the payload
\* (Completed for results, Failed for an error).
C39_TerminalSnapshotFirst ==
    \A s \in DOMAIN streams :
        \A i \in 1..Len(streams[s].out) :
            streams[s].out[i].kind \in {"results", "error"} =>
                \E k \in 1..(i - 1) :
                    /\ streams[s].out[k].kind = "snapshot"
                    /\ streams[s].out[k].status =
                          (IF streams[s].out[i].kind = "results" THEN "completed" ELSE "failed")

\* C40: in the results of a Completed job the metadata agree with the
\* classification statistics (emails fetched = total_emails, financial emails
\* processed = will_process_with_ai), and the extracted insights are at most
\* as many as the financial emails processed, as many exactly when no batch
\* of the job failed.
C40_MetadataAgreesWithStats ==
    \A j \in DOMAIN jobs :
        jobs[j].status = "completed" =>
            LET r == jobs[j].results[1]
            IN  /\ r.metadata.total_emails_fetched = r.classification_stats.total_emails
                /\ r.metadata.financial_emails_processed =
                      r.classification_stats.will_process_with_ai
                /\ Len(r.extracted_insights) <= r.metadata.financial_emails_processed
                /\ (Len(r.extracted_insights) = r.metadata.financial_emails_processed)
                      <=> ~proc[j].batch_raised

\* C40 witness: a Completed job on the largest mixed mailbox: some of the
\* emails fetched were skipped, and there is one insight for each of the
\* others.
C40_Witness ==
    \E j \in DOMAIN jobs :
        /\ jobs[j].status = "completed"
        /\ jobs[j].results[1].metadata.total_emails_fetched = MaxEmails
        /\ jobs[j].results[1].classification_stats.probably_not > 0
        /\ jobs[j].results[1].metadata.financial_emails_processed > batch_size
        /\ Len(jobs[j].results[1].extracted_insights) =
              jobs[j].results[1].metadata.financial_emails_processed

====
